---- MODULE Spec2Model ----
(***************************************************************************)
(* A model of the SolRoute routing library (gtdvccc/SolRouteTmp):          *)
(*   - the router (SimpleRouter.QueryAllPools / GetBestPool),              *)
(*   - the Quote entry points of the Raydium CLMM and Orca Whirlpool pools,*)
(*   - the protocol adapters' FetchPoolByID and FetchPoolsByPair,          *)
(*   - the Whirlpool swap arithmetic (swap step and single-step quote),    *)
(*   - the Raydium CLMM pool object (Quote, BuildSwapInstructions),        *)
(*   - the account codecs, the integer kernels, tick and bin arithmetic,   *)
(*   - Client.SendTx and utils.LoadEnv,                                    *)
(*   - CLMMPool.swapCompute and concurrent BuildSwapInstructions calls,    *)
(*   - WhirlpoolPool.Quote with its tick-array cache, the derivation of    *)
(*     the three tick arrays, checkAccountExists,                          *)
(*   - the Meteora DLMM bin amounts and bin array bitmap extension.        *)
(*                                                                         *)
(* Fixed-point arithmetic is modelled at a reduced resolution: the source  *)
(* works in Q64.64 (U64Resolution = 64) on big integers, which TLC's       *)
(* 32-bit integers cannot hold.  U64Resolution is the number of fraction   *)
(* bits of the model; every formula of the arithmetic is the source's      *)
(* formula with 64 replaced by it.                                         *)
(***************************************************************************)
EXTENDS Integers, Sequences, FiniteSets, TLC

VARIABLES
    pools,      \* SimpleRouter.pools: the router's candidate list (pool ids)
    lastQuery,  \* the QueryAllPools call, when it is the router's latest call:
                \* its arguments and what it returned
    gb,         \* the GetBestPool call, when it is the router's latest call:
                \* its progress and what it returned
    call,       \* the protocol adapter call in progress (FetchPoolByID or
                \* FetchPoolsByPair): its arguments, position and result
    step,       \* the latest whirlpoolSwapStepComputePrecise call: its
                \* arguments and what it returned
    wq,         \* a Whirlpool pool snapshot and the latest two quotes on it
    clmm,       \* a Raydium CLMM pool object, the chain accounts behind it, the
                \* Quote in progress on it and the instructions built from it
    calc,       \* the latest call of a pure helper (codec, integer kernel,
                \* tick and bin arithmetic): its arguments and its result
    tx,         \* the latest Client.SendTx call and what it returned
    proc,       \* the process: its environment, the .env file, the LoadEnv
                \* calls in progress
    sc,         \* the CLMMPool.swapCompute call in progress: its arguments, its
                \* loop variables and what it returned
    conc,       \* a CLMM pool object and the BuildSwapInstructions calls that
                \* run on it at the same time
    wpool,      \* a Whirlpool pool object, the accounts the RPC node serves
                \* and the Quote calls made on it
    probe       \* the checkAccountExists call in progress: its attempts, its
                \* sleeps and what it returned

others == <<clmm, calc, tx, proc>>

later == <<sc, conc, wpool, probe>>

base == <<pools, lastQuery, gb, call, step, wq>>

vars == <<pools, lastQuery, gb, call, step, wq, clmm, calc, tx, proc, sc, conc, wpool, probe>>

----------------------------------------------------------------------------
(* Bounds of the model *)

MaxPools == 3       \* longest candidate list explored
MaxOut == 2         \* largest output a simulator reports

----------------------------------------------------------------------------
(* The chain: pool accounts that the program-accounts scans can return *)

Mints == {"SOL", "USDC", "BONK"}

ChainPools ==
    << [id |-> "c1", kind |-> "raydium_clmm",   mint0 |-> "SOL",  mint1 |-> "USDC"],
       [id |-> "d1", kind |-> "meteora_dlmm",   mint0 |-> "USDC", mint1 |-> "SOL"],
       [id |-> "w1", kind |-> "orca_whirlpool", mint0 |-> "SOL",  mint1 |-> "USDC"] >>

PoolIds == {ChainPools[i].id : i \in 1..Len(ChainPools)}

PoolOf(id) == CHOOSE p \in {ChainPools[i] : i \in 1..Len(ChainPools)} : p.id = id

\* accounts that may fail to decode or fail the adapter's per-pool checks
BadCandidates == {"w1"}

----------------------------------------------------------------------------
(* Protocol adapters: discovery *)

\* r.protocols, in registration order
Protocols == <<"raydium_clmm", "meteora_dlmm", "orca_whirlpool">>

RECURSIVE ScanAccounts(_, _, _, _)
\* one getProgramAccounts scan: the accounts of program proto whose mint
\* fields match (mintX, mintY), from position i of the chain on
ScanAccounts(i, proto, mintX, mintY) ==
    IF i > Len(ChainPools) THEN <<>>
    ELSE LET p == ChainPools[i]
             rest == ScanAccounts(i + 1, proto, mintX, mintY)
         IN  IF p.kind = proto /\ p.mint0 = mintX /\ p.mint1 = mintY
             THEN <<p.id>> \o rest
             ELSE rest

RECURSIVE DecodeAccounts(_, _)
\* the decode loop: accounts that fail to decode (or fail a per-pool check)
\* are skipped, the others are appended in scan order
DecodeAccounts(accounts, bad) ==
    IF accounts = <<>> THEN <<>>
    ELSE IF Head(accounts) \in bad
         THEN DecodeAccounts(Tail(accounts), bad)
         ELSE <<Head(accounts)>> \o DecodeAccounts(Tail(accounts), bad)

\* FetchPoolsByPair of an adapter whose two scans succeed: both orientations,
\* concatenated, then decoded
FetchPoolsByPair(proto, baseMint, quoteMint, bad) ==
    DecodeAccounts(ScanAccounts(1, proto, baseMint, quoteMint)
                     \o ScanAccounts(1, proto, quoteMint, baseMint), bad)

----------------------------------------------------------------------------
(* Router: QueryAllPools *)

RECURSIVE QueryLoopBreak(_, _, _, _, _, _)
QueryLoopBreak(i, acc, baseMint, quoteMint, failed, bad) ==
    IF i > Len(Protocols) THEN acc
    ELSE IF Protocols[i] \in failed
         THEN acc
         ELSE QueryLoopBreak(i + 1,
                  acc \o FetchPoolsByPair(Protocols[i], baseMint, quoteMint, bad),
                  baseMint, quoteMint, failed, bad)

RECURSIVE QueryLoop(_, _, _, _, _, _)
\* the loop over r.protocols from position i: an adapter whose
\* FetchPoolsByPair returns an error (proto \in failed) is skipped with
\* `continue`, the others' pools are appended to r.pools
QueryLoop(i, acc, baseMint, quoteMint, failed, bad) ==
    IF i > Len(Protocols) THEN acc
    ELSE IF Protocols[i] \in failed
         THEN QueryLoop(i + 1, acc, baseMint, quoteMint, failed, bad)
         ELSE QueryLoop(i + 1,
                  acc \o FetchPoolsByPair(Protocols[i], baseMint, quoteMint, bad),
                  baseMint, quoteMint, failed, bad)

NoQuery == [called |-> FALSE, baseMint |-> "", quoteMint |-> "", failed |-> {},
            bad |-> {}, before |-> 0, returned |-> <<>>, err |-> FALSE]

IdleCall == [pc |-> "idle", tokenIn |-> "", amountIn |-> 0, i |-> 0, best |-> 0,
             maxOut |-> 0, quotes |-> <<>>, err |-> FALSE, amount |-> 0]

QueryAllPools(baseMint, quoteMint) ==
    /\ gb.pc = "idle"
    /\ \E failed \in SUBSET {Protocols[i] : i \in 1..Len(Protocols)},
          bad \in SUBSET BadCandidates :
         LET new == QueryLoop(1, pools, baseMint, quoteMint, failed, bad)
         IN  /\ Len(new) <= MaxPools
             /\ pools' = new
             /\ lastQuery' = [called |-> TRUE, baseMint |-> baseMint,
                              quoteMint |-> quoteMint, failed |-> failed,
                              bad |-> bad, before |-> Len(pools),
                              returned |-> new, err |-> FALSE]
    /\ gb' = IdleCall
    /\ UNCHANGED <<call, step, wq, others, later>>

----------------------------------------------------------------------------
(* Pools: Quote *)

Ok(a) == [kind |-> "ok", amt |-> a]
Err == [kind |-> "err", amt |-> 0]
Panic == [kind |-> "panic", amt |-> 0]

\* what the RPC node and the pool snapshot look like to one Quote call
\* ("sim_error": the accounts are fine and the swap simulation fails)
Conds == {"ok", "rpc_error", "ext_bitmap_missing", "tick_array_missing",
          "decode_error", "unhealthy", "sim_error"}
\* the size of the output the swap simulation computes when it succeeds
Sims == 0..MaxOut
Envs == [cond : Conds, sim : Sims]

\* CLMMPool.swapCompute as seen from Quote: zero input is rejected; a positive
\* amount is exact-input (amountCalculated = -(sum of amountOut)), a negative
\* one exact-output (amountCalculated = sum of amountIn + fee)
CLMMSwapCompute(amountSpecified, env) ==
    IF amountSpecified = 0 THEN Err
    ELSE IF env.cond = "sim_error" THEN Err
    ELSE IF amountSpecified > 0 THEN Ok(-env.sim) ELSE Ok(env.sim)

\* CLMMPool.Quote
CLMMQuote(pool, inputMint, inputAmount, env) ==
    IF env.cond = "rpc_error" THEN Err                  \* either batch request fails
    ELSE IF env.cond = "ext_bitmap_missing" THEN Panic  \* result.Data on a nil account
    ELSE IF env.cond = "tick_array_missing" THEN Panic  \* result.Data on a nil account
    ELSE IF env.cond = "decode_error" THEN Err          \* tickArray.Decode fails
    ELSE LET r == CLMMSwapCompute(inputAmount, env)
             \* inputMint = TokenMint0: zeroForOne; any other mint takes the
             \* else branch and is quoted as TokenMint1
         IN  IF r.kind = "ok" THEN Ok(-r.amt) ELSE r

\* WhirlpoolPool.validateQuoteInputs
validateQuoteInputs(inputMint, inputAmount) ==
    /\ inputAmount # 0
    /\ ~(inputAmount < 0)
    /\ inputMint \in Mints     \* a well-formed base58 address

\* WhirlpoolPool.Quote
WhirlpoolQuote(pool, inputMint, inputAmount, env) ==
    IF ~validateQuoteInputs(inputMint, inputAmount) THEN Err
    ELSE IF env.cond = "unhealthy" THEN Err             \* validatePoolState / IsHealthy
    \* UpdateTickArrays: its errors are logged and ignored
    ELSE IF inputMint \notin {pool.mint0, pool.mint1} THEN Err
    \* validateTickArraySequence: only critical errors abort
    ELSE IF env.cond \in {"tick_array_missing", "decode_error"} THEN Err
    ELSE IF env.cond = "sim_error" THEN Err
    ELSE IF env.sim = 0 THEN Err                        \* calculated amount is zero
    ELSE Ok(env.sim)

\* MeteoraDlmmPool.Quote: the Pool interface's contract (an amount or an error)
DlmmQuote(pool, inputMint, inputAmount, env) ==
    IF env.cond # "ok" THEN Err
    ELSE IF inputMint \notin {pool.mint0, pool.mint1} \/ inputAmount <= 0 THEN Err
    ELSE Ok(env.sim)

\* pool.Quote: dispatch on the pool's concrete type
Quote(pool, inputMint, inputAmount, env) ==
    CASE pool.kind = "raydium_clmm"   -> CLMMQuote(pool, inputMint, inputAmount, env)
      [] pool.kind = "orca_whirlpool" -> WhirlpoolQuote(pool, inputMint, inputAmount, env)
      [] OTHER                        -> DlmmQuote(pool, inputMint, inputAmount, env)

----------------------------------------------------------------------------
(* Router: GetBestPool *)

InitialMaxOutOne == 0 + 1
\* maxOut := math.NewInt(0)
InitialMaxOut == 0

BetterGTE(outAmount, maxOut) == outAmount >= maxOut
\* outAmount.GT(maxOut)
Better(outAmount, maxOut) == outAmount > maxOut

\* input amounts by sign (the size of the output is the environment's choice)
AmountsIn == {-1, 0, 1}

\* entry of GetBestPool: best = nil, maxOut = 0, the loop is about to start
GetBestPoolStart(tokenIn, amountIn) ==
    /\ gb.pc = "idle"
    /\ gb' = [pc |-> "quoting", tokenIn |-> tokenIn, amountIn |-> amountIn,
              i |-> 1, best |-> 0, maxOut |-> InitialMaxOut, quotes |-> <<>>,
              err |-> FALSE, amount |-> 0]
    /\ lastQuery' = NoQuery
    /\ UNCHANGED <<pools, call, step, wq, others, later>>

\* one iteration of the loop over r.pools: pool.Quote (an RPC round trip),
\* then the comparison with maxOut
QuoteNext ==
    /\ gb.pc = "quoting"
    /\ gb.i <= Len(pools)
    /\ \E env \in Envs :
         LET out == Quote(PoolOf(pools[gb.i]), gb.tokenIn, gb.amountIn, env)
         IN  gb' = IF out.kind = "panic"
                   THEN [gb EXCEPT !.pc = "panicked",
                                   !.quotes = Append(@, out)]
                   ELSE IF out.kind = "err"
                   THEN [gb EXCEPT !.i = @ + 1, !.quotes = Append(@, out)]
                   ELSE IF Better(out.amt, gb.maxOut)
                   THEN [gb EXCEPT !.i = @ + 1, !.quotes = Append(@, out),
                                   !.maxOut = out.amt, !.best = gb.i]
                   ELSE [gb EXCEPT !.i = @ + 1, !.quotes = Append(@, out)]
    /\ UNCHANGED <<pools, lastQuery, call, step, wq, others, later>>

\* after the loop: "no route found" when best is nil, else (best, maxOut)
GetBestPoolReturn ==
    /\ gb.pc = "quoting"
    /\ gb.i > Len(pools)
    /\ gb' = IF gb.best = 0
             THEN [gb EXCEPT !.pc = "returned", !.err = TRUE, !.amount = 0]
             ELSE [gb EXCEPT !.pc = "returned", !.err = FALSE, !.amount = gb.maxOut]
    /\ UNCHANGED <<pools, lastQuery, call, step, wq, others, later>>

\* the caller has taken GetBestPool's result and goes on to its next call on
\* the same router (r.pools is as GetBestPool left it)
NextRequest ==
    /\ gb.pc = "returned"
    /\ gb' = IdleCall
    /\ UNCHANGED <<pools, lastQuery, call, step, wq, others, later>>

----------------------------------------------------------------------------
(* The protocol adapters (MeteoraDlmmProtocol, OrcaWhirlpoolProtocol) *)

\* solana.PublicKey{}: the zero key, the value of a PoolId never assigned
ZeroKey == "11111111111111111111111111111111"

\* a pool id string that is not base58
NotBase58 == "not-base58"

\* pool ids a caller may ask for: the chain's pools, an address with no
\* account, and a malformed string
RequestedIds == PoolIds \cup {"absent", NotBase58}

\* the seeds of the bin array bitmap extension PDA of an lb pair
DeriveBinArrayBitmapExtension(lbPair) == <<"bitmap", lbPair>>

NoPool == [kind |-> "", PoolId |-> "", BitmapExtensionKey |-> <<>>]

NoCall == [op |-> "none", proto |-> "", pc |-> "idle", poolID |-> "",
           baseMint |-> "", quoteMint |-> "", accounts |-> <<>>, i |-> 0,
           pool |-> NoPool, result |-> <<>>, err |-> ""]

Failed(c, msg) == [c EXCEPT !.pc = "returned", !.err = msg]

\* MeteoraDlmmProtocol.FetchPoolByID, up to its GetAccountInfo request:
\* poolData is a fresh MeteoraDlmmPool, MustPublicKeyFromBase58 panics on a
\* malformed id
DlmmFetchPoolByID(poolID) ==
    /\ call.op = "none"
    /\ call' = [NoCall EXCEPT
                  !.op = "FetchPoolByID", !.proto = "meteora_dlmm",
                  !.poolID = poolID,
                  !.pool = [kind |-> "meteora_dlmm", PoolId |-> ZeroKey,
                            BitmapExtensionKey |-> <<>>],
                  !.pc = IF poolID = NotBase58 THEN "panicked"
                         ELSE "GetAccountInfo"]
    /\ UNCHANGED <<pools, lastQuery, gb, step, wq, others, later>>

\* the account arrives (or not) and is decoded; Decode sees the account's
\* data only, PoolId stays as it was
DlmmDecodeAccount ==
    /\ call.op = "FetchPoolByID" /\ call.proto = "meteora_dlmm"
    /\ call.pc = "GetAccountInfo"
    /\ \E rpcOk \in BOOLEAN, decodeOk \in BOOLEAN :
         call' = IF ~rpcOk \/ call.poolID \notin PoolIds
                 THEN Failed(call, "failed to get pool account")
                 ELSE IF ~decodeOk
                 THEN Failed(call, "failed to decode pool data")
                 ELSE [call EXCEPT !.pc = "GetBinArrayForSwap"]
    /\ UNCHANGED <<pools, lastQuery, gb, step, wq, others, later>>

\* GetBinArrayForSwap answers, then the bitmap extension address is derived
\* from poolData.PoolId and the pool is returned
DlmmDeriveAndReturn ==
    /\ call.op = "FetchPoolByID" /\ call.proto = "meteora_dlmm"
    /\ call.pc = "GetBinArrayForSwap"
    /\ \E binArrayOk \in BOOLEAN :
         call' = IF ~binArrayOk
                 THEN Failed(call, "failed to get bin array for swap")
                 ELSE [call EXCEPT
                         !.pc = "returned",
                         !.pool.BitmapExtensionKey =
                             DeriveBinArrayBitmapExtension(call.pool.PoolId)]
    /\ UNCHANGED <<pools, lastQuery, gb, step, wq, others, later>>

\* OrcaWhirlpoolProtocol.FetchPoolByID, up to its GetAccountInfo request:
\* PublicKeyFromBase58 rejects a malformed id with an error
WhirlpoolFetchPoolByID(poolId) ==
    /\ call.op = "none"
    /\ call' = LET c == [NoCall EXCEPT
                           !.op = "FetchPoolByID", !.proto = "orca_whirlpool",
                           !.poolID = poolId, !.pc = "GetAccountInfo"]
               IN  IF poolId = NotBase58 THEN Failed(c, "invalid pool id") ELSE c
    /\ UNCHANGED <<pools, lastQuery, gb, step, wq, others, later>>

\* the account arrives (or not), is decoded, and layout.PoolId is set to the
\* requested key
WhirlpoolDecodeAndReturn ==
    /\ call.op = "FetchPoolByID" /\ call.proto = "orca_whirlpool"
    /\ call.pc = "GetAccountInfo"
    /\ \E rpcOk \in BOOLEAN, decodeOk \in BOOLEAN :
         call' = IF ~rpcOk \/ call.poolID \notin PoolIds
                 THEN Failed(call, "failed to get pool account")
                 ELSE IF ~decodeOk
                 THEN Failed(call, "failed to decode pool data")
                 ELSE [call EXCEPT
                         !.pc = "returned",
                         !.pool = [kind |-> "orca_whirlpool",
                                   PoolId |-> call.poolID,
                                   BitmapExtensionKey |-> <<>>]]
    /\ UNCHANGED <<pools, lastQuery, gb, step, wq, others, later>>

\* MeteoraDlmmProtocol.FetchPoolsByPair, up to its first program-accounts scan
DlmmFetchPoolsByPair(baseMint, quoteMint) ==
    /\ call.op = "none"
    /\ call' = [NoCall EXCEPT
                  !.op = "FetchPoolsByPair", !.proto = "meteora_dlmm",
                  !.baseMint = baseMint, !.quoteMint = quoteMint,
                  !.pc = "scanBaseQuote"]
    /\ UNCHANGED <<pools, lastQuery, gb, step, wq, others, later>>

\* the scan with baseMint as TokenX answers
DlmmScanBaseQuote ==
    /\ call.op = "FetchPoolsByPair" /\ call.proto = "meteora_dlmm"
    /\ call.pc = "scanBaseQuote"
    /\ \E rpcOk \in BOOLEAN :
         call' = IF ~rpcOk
                 THEN Failed(call, "failed to fetch pools with baseMint as TokenX")
                 ELSE [call EXCEPT
                         !.pc = "scanQuoteBase",
                         !.accounts = ScanAccounts(1, call.proto, call.baseMint,
                                                   call.quoteMint)]
    /\ UNCHANGED <<pools, lastQuery, gb, step, wq, others, later>>

\* the scan with quoteMint as TokenX answers; the decode loop is next
DlmmScanQuoteBase ==
    /\ call.op = "FetchPoolsByPair" /\ call.proto = "meteora_dlmm"
    /\ call.pc = "scanQuoteBase"
    /\ \E rpcOk \in BOOLEAN :
         call' = IF ~rpcOk
                 THEN Failed(call, "failed to fetch pools with quoteMint as TokenX")
                 ELSE [call EXCEPT
                         !.pc = "loop", !.i = 1,
                         !.accounts = @ \o ScanAccounts(1, call.proto,
                                                        call.quoteMint,
                                                        call.baseMint)]
    /\ UNCHANGED <<pools, lastQuery, gb, step, wq, others, later>>

\* one iteration of the loop over the scanned accounts: decode, set PoolId
\* to the account's key, GetBinArrayForSwap, derive the bitmap extension
DlmmDecodeNext ==
    /\ call.op = "FetchPoolsByPair" /\ call.proto = "meteora_dlmm"
    /\ call.pc = "loop"
    /\ call.i <= Len(call.accounts)
    /\ \E decodeOk \in BOOLEAN, binArrayOk \in BOOLEAN :
         LET poolData == [kind |-> call.proto,
                          PoolId |-> call.accounts[call.i],
                          BitmapExtensionKey |->
                              DeriveBinArrayBitmapExtension(call.accounts[call.i])]
         IN  call' = IF decodeOk /\ binArrayOk
                     THEN [call EXCEPT !.i = @ + 1,
                                       !.result = Append(@, poolData)]
                     ELSE [call EXCEPT !.i = @ + 1]
    /\ UNCHANGED <<pools, lastQuery, gb, step, wq, others, later>>

\* the loop is over: the pools kept are returned
DlmmPairReturn ==
    /\ call.op = "FetchPoolsByPair" /\ call.proto = "meteora_dlmm"
    /\ call.pc = "loop"
    /\ call.i > Len(call.accounts)
    /\ call' = [call EXCEPT !.pc = "returned"]
    /\ UNCHANGED <<pools, lastQuery, gb, step, wq, others, later>>

\* OrcaWhirlpoolProtocol.FetchPoolsByPair, up to its first program-accounts
\* scan
WhirlpoolFetchPoolsByPair(baseMint, quoteMint) ==
    /\ call.op = "none"
    /\ call' = [NoCall EXCEPT
                  !.op = "FetchPoolsByPair", !.proto = "orca_whirlpool",
                  !.baseMint = baseMint, !.quoteMint = quoteMint,
                  !.pc = "scanBaseQuote"]
    /\ UNCHANGED <<pools, lastQuery, gb, step, wq, others, later>>

\* the scan with baseMint as TokenMintA answers
WhirlpoolScanBaseQuote ==
    /\ call.op = "FetchPoolsByPair" /\ call.proto = "orca_whirlpool"
    /\ call.pc = "scanBaseQuote"
    /\ \E rpcOk \in BOOLEAN :
         call' = IF ~rpcOk
                 THEN Failed(call, "failed to fetch pools with base token")
                 ELSE [call EXCEPT
                         !.pc = "scanQuoteBase",
                         !.accounts = ScanAccounts(1, call.proto, call.baseMint,
                                                   call.quoteMint)]
    /\ UNCHANGED <<pools, lastQuery, gb, step, wq, others, later>>

\* the scan with quoteMint as TokenMintA answers; the decode loop is next
WhirlpoolScanQuoteBase ==
    /\ call.op = "FetchPoolsByPair" /\ call.proto = "orca_whirlpool"
    /\ call.pc = "scanQuoteBase"
    /\ \E rpcOk \in BOOLEAN :
         call' = IF ~rpcOk
                 THEN Failed(call, "failed to fetch pools with base token")
                 ELSE [call EXCEPT
                         !.pc = "loop", !.i = 1,
                         !.accounts = @ \o ScanAccounts(1, call.proto,
                                                        call.quoteMint,
                                                        call.baseMint)]
    /\ UNCHANGED <<pools, lastQuery, gb, step, wq, others, later>>

\* liquidity_net is counted in units of 5 * 10^17, so that the threshold
\* 1e18 of validateCriticalTickArrays is 2
CriticalLiquidityNet == 2

\* what the GetMultipleAccountsWithOpts of one direction can answer: the
\* request fails or not, the primary tick array is missing, undecodable or
\* decodes to ticks with the given liquidity_net, and so many of the other
\* two arrays are missing
TickArrayAnswers ==
    [rpcOk : BOOLEAN, primary : {"missing", "corrupt", "ok"},
     LiquidityNets : {<<0>>, <<0, -3>>, <<3, 0>>, <<-2, 2>>},
     missingArrays : {0, 2}]

\* the body of validateCriticalTickArrays' loop for one direction: TRUE when
\* it finds nothing to return an error for
criticalTickArraysOk(answer) ==
    /\ answer.rpcOk
    /\ answer.primary # "missing"
    /\ ~(answer.missingArrays > 1)
    /\ answer.primary # "corrupt"
    /\ \A k \in 1..Len(answer.LiquidityNets) :
         ~(answer.LiquidityNets[k] < 0 - CriticalLiquidityNet)

\* OrcaWhirlpoolProtocol.validateCriticalTickArrays: directions A->B, B->A
validateCriticalTickArrays(answers) ==
    criticalTickArraysOk(answers[1]) /\ criticalTickArraysOk(answers[2])

\* one iteration of the loop over the scanned accounts: decode, set PoolId
\* to the account's key, then IsHealthy, ValidatePoolState and
\* validateCriticalTickArrays, each of which may drop the pool (tickArrays
\* records what the chain answered about a pool that is kept)
WhirlpoolDecodeNext ==
    /\ call.op = "FetchPoolsByPair" /\ call.proto = "orca_whirlpool"
    /\ call.pc = "loop"
    /\ call.i <= Len(call.accounts)
    /\ \E decodeOk \in BOOLEAN, healthy \in BOOLEAN, valid \in BOOLEAN,
          aToB \in TickArrayAnswers, bToA \in TickArrayAnswers :
         LET layout == [kind |-> call.proto,
                        PoolId |-> call.accounts[call.i],
                        BitmapExtensionKey |-> <<>>,
                        tickArrays |-> <<aToB, bToA>>]
         IN  call' = IF decodeOk /\ healthy /\ valid
                        /\ validateCriticalTickArrays(<<aToB, bToA>>)
                     THEN [call EXCEPT !.i = @ + 1,
                                       !.result = Append(@, layout)]
                     ELSE [call EXCEPT !.i = @ + 1]
    /\ UNCHANGED <<pools, lastQuery, gb, step, wq, others, later>>

\* the loop is over: the pools kept are returned
WhirlpoolPairReturn ==
    /\ call.op = "FetchPoolsByPair" /\ call.proto = "orca_whirlpool"
    /\ call.pc = "loop"
    /\ call.i > Len(call.accounts)
    /\ call' = [call EXCEPT !.pc = "returned"]
    /\ UNCHANGED <<pools, lastQuery, gb, step, wq, others, later>>

\* the caller has taken the adapter's result and makes its next call
CallDone ==
    /\ call.pc = "returned"
    /\ call' = NoCall
    /\ UNCHANGED <<pools, lastQuery, gb, step, wq, others, later>>

NextAdapter ==
    \/ \E id \in RequestedIds : DlmmFetchPoolByID(id)
    \/ DlmmDecodeAccount
    \/ DlmmDeriveAndReturn
    \/ \E id \in RequestedIds : WhirlpoolFetchPoolByID(id)
    \/ WhirlpoolDecodeAndReturn
    \/ \E b \in Mints, q \in Mints : b # q /\ DlmmFetchPoolsByPair(b, q)
    \/ DlmmScanBaseQuote
    \/ DlmmScanQuoteBase
    \/ DlmmDecodeNext
    \/ DlmmPairReturn
    \/ \E b \in Mints, q \in Mints : b # q /\ WhirlpoolFetchPoolsByPair(b, q)
    \/ WhirlpoolScanBaseQuote
    \/ WhirlpoolScanQuoteBase
    \/ WhirlpoolDecodeNext
    \/ WhirlpoolPairReturn
    \/ CallDone

----------------------------------------------------------------------------
(* The Whirlpool swap arithmetic *)

\* fraction bits of a sqrt price (the source's U64Resolution is 64)
U64Resolution == 9

MaxAmountIn == 2000     \* largest amount quoted or stepped
MaxSqrtPrice == 1100    \* largest sqrt price of a pool
MaxLiquidity == 2048    \* largest liquidity of a pool

FEE_RATE_DENOMINATOR == 1000000

\* the smallest sqrt price a pool can have, at the model's resolution
MIN_SQRT_PRICE_X64 == 1

\* the largest sqrt price a pool can have, at the model's resolution
MAX_SQRT_PRICE_X64 == MaxSqrtPrice

RECURSIVE Pow2(_)
Pow2(n) == IF n = 0 THEN 1 ELSE 2 * Pow2(n - 1)

\* big.Int.Lsh
Lsh(x, n) == x * Pow2(n)

Abs(x) == IF x < 0 THEN -x ELSE x

\* Int.Quo: the quotient truncated toward zero
Quo(a, b) == IF a >= 0 THEN a \div b ELSE -((-a) \div b)

whirlpoolMulDivFloorRoundsUp(a, b, denominator) ==
    Quo(a * b + (denominator - 1), denominator)

whirlpoolMulDivFloor(a, b, denominator) == Quo(a * b, denominator)

\* a zero denominator yields the zero Int
whirlpoolMulDivCeil(a, b, denominator) ==
    IF denominator = 0 THEN 0
    ELSE Quo(a * b + (denominator - 1), denominator)

whirlpoolMulDivRoundingUp(a, b, denominator) ==
    ((a * b) \div denominator)
        + (IF (a * b) % denominator # 0 THEN 1 ELSE 0)

Min(a, b) == IF a <= b THEN a ELSE b
Max(a, b) == IF a >= b THEN a ELSE b

\* (both prices are positive here: the source panics otherwise, which the
\* callers below decide before they use the amount)
whirlpoolGetTokenAmountAFromLiquidity(sqrtPriceX64A, sqrtPriceX64B, liquidity, roundUp) ==
    LET priceA == Min(sqrtPriceX64A, sqrtPriceX64B)
        priceB == Max(sqrtPriceX64A, sqrtPriceX64B)
        numerator1 == Lsh(liquidity, U64Resolution)
        numerator2 == priceB - priceA
    IN  IF roundUp
        THEN whirlpoolMulDivCeil(
                 whirlpoolMulDivCeil(numerator1, numerator2, priceB), 1, priceA)
        ELSE Quo(whirlpoolMulDivFloor(numerator1, numerator2, priceB), priceA)

whirlpoolGetTokenAmountBFromLiquidity(sqrtPriceX64A, sqrtPriceX64B, liquidity, roundUp) ==
    LET priceA == Min(sqrtPriceX64A, sqrtPriceX64B)
        priceB == Max(sqrtPriceX64A, sqrtPriceX64B)
        priceDiff == priceB - priceA
        denominator == Lsh(1, U64Resolution)
    IN  IF roundUp
        THEN whirlpoolMulDivCeil(liquidity, priceDiff, denominator)
        ELSE whirlpoolMulDivFloor(liquidity, priceDiff, denominator)

\* (with add = FALSE the source panics unless liquidity << 64 exceeds
\* amount * sqrtPrice: see FromOutputPanics)
whirlpoolGetNextSqrtPriceFromTokenAmountARoundingUp(sqrtPriceX64, liquidity, amount, add) ==
    IF amount = 0 THEN sqrtPriceX64
    ELSE LET liquidityLeftShift == Lsh(liquidity, U64Resolution)
         IN  IF add
             THEN LET denominator == liquidityLeftShift + amount * sqrtPriceX64
                  IN  IF denominator >= liquidityLeftShift
                      THEN whirlpoolMulDivCeil(liquidityLeftShift, sqrtPriceX64,
                                               denominator)
                      ELSE whirlpoolMulDivRoundingUp(
                               liquidityLeftShift, 1,
                               (liquidityLeftShift \div sqrtPriceX64) + amount)
             ELSE whirlpoolMulDivCeil(liquidityLeftShift, sqrtPriceX64,
                                      liquidityLeftShift - amount * sqrtPriceX64)

\* (with add = FALSE the source panics unless sqrtPrice exceeds the rounded-up
\* amount / liquidity: see FromOutputPanics)
whirlpoolGetNextSqrtPriceFromTokenAmountBRoundingDown(sqrtPriceX64, liquidity, amount, add) ==
    LET deltaY == Lsh(amount, U64Resolution)
    IN  IF add
        THEN sqrtPriceX64 + (deltaY \div liquidity)
        ELSE sqrtPriceX64 - whirlpoolMulDivRoundingUp(deltaY, 1, liquidity)

whirlpoolGetNextSqrtPriceX64FromInput(sqrtPriceX64Current, liquidity, amount, zeroForOne) ==
    IF amount = 0 THEN sqrtPriceX64Current
    ELSE IF zeroForOne
    THEN whirlpoolGetNextSqrtPriceFromTokenAmountARoundingUp(
             sqrtPriceX64Current, liquidity, amount, TRUE)
    ELSE whirlpoolGetNextSqrtPriceFromTokenAmountBRoundingDown(
             sqrtPriceX64Current, liquidity, amount, TRUE)

whirlpoolGetNextSqrtPriceX64FromOutput(sqrtPriceX64Current, liquidity, amount, zeroForOne) ==
    IF zeroForOne
    THEN whirlpoolGetNextSqrtPriceFromTokenAmountBRoundingDown(
             sqrtPriceX64Current, liquidity, amount, FALSE)
    ELSE whirlpoolGetNextSqrtPriceFromTokenAmountARoundingUp(
             sqrtPriceX64Current, liquidity, amount, FALSE)

\* the panics of whirlpoolGetNextSqrtPriceX64FromInput
FromInputPanics(sqrtPriceX64Current, liquidity) ==
    sqrtPriceX64Current <= 0 \/ liquidity <= 0

\* the panics of whirlpoolGetNextSqrtPriceX64FromOutput and of the two
\* functions it calls with add = FALSE
FromOutputPanics(sqrtPriceX64Current, liquidity, amount, zeroForOne) ==
    \/ sqrtPriceX64Current <= 0
    \/ liquidity <= 0
    \/ /\ zeroForOne
       /\ sqrtPriceX64Current
              <= whirlpoolMulDivRoundingUp(Lsh(amount, U64Resolution), 1, liquidity)
    \/ /\ ~zeroForOne
       /\ amount # 0
       /\ Lsh(liquidity, U64Resolution) <= amount * sqrtPriceX64Current

StepPanic == [kind |-> "panic", sqrtPriceNext |-> 0, amountIn |-> 0,
              amountOut |-> 0, feeAmount |-> 0]

StepError == [kind |-> "err", sqrtPriceNext |-> 0, amountIn |-> 0,
              amountOut |-> 0, feeAmount |-> 0]

whirlpoolSwapStepComputePrecise(sqrtPriceX64Current, sqrtPriceX64Target, liquidity, amountRemaining, feeRate, zeroForOne) ==
    LET baseInput == amountRemaining >= 0
        amountRemainingSubtractFee ==
            whirlpoolMulDivFloor(amountRemaining, FEE_RATE_DENOMINATOR - feeRate,
                                 FEE_RATE_DENOMINATOR)
        \* the amounts between the current and the target price
        firstAmountIn ==
            IF zeroForOne
            THEN whirlpoolGetTokenAmountAFromLiquidity(
                     sqrtPriceX64Target, sqrtPriceX64Current, liquidity, TRUE)
            ELSE whirlpoolGetTokenAmountBFromLiquidity(
                     sqrtPriceX64Current, sqrtPriceX64Target, liquidity, TRUE)
        firstAmountOut ==
            IF zeroForOne
            THEN whirlpoolGetTokenAmountBFromLiquidity(
                     sqrtPriceX64Target, sqrtPriceX64Current, liquidity, FALSE)
            ELSE whirlpoolGetTokenAmountAFromLiquidity(
                     sqrtPriceX64Current, sqrtPriceX64Target, liquidity, FALSE)
        amountRemainingNeg == amountRemaining * (-1)
        targetTaken ==
            IF baseInput THEN amountRemainingSubtractFee >= firstAmountIn
            ELSE amountRemainingNeg >= firstAmountOut
        panics ==
            \/ Min(sqrtPriceX64Current, sqrtPriceX64Target) <= 0
            \/ /\ ~targetTaken
               /\ IF baseInput
                  THEN FromInputPanics(sqrtPriceX64Current, liquidity)
                  ELSE FromOutputPanics(sqrtPriceX64Current, liquidity,
                                        amountRemainingNeg, zeroForOne)
        SqrtPriceX64Next ==
            IF targetTaken THEN sqrtPriceX64Target
            ELSE IF baseInput
            THEN whirlpoolGetNextSqrtPriceX64FromInput(
                     sqrtPriceX64Current, liquidity, amountRemainingSubtractFee,
                     zeroForOne)
            ELSE whirlpoolGetNextSqrtPriceX64FromOutput(
                     sqrtPriceX64Current, liquidity, amountRemainingNeg, zeroForOne)
        reachTargetPrice == SqrtPriceX64Next = sqrtPriceX64Target
        AmountIn ==
            IF reachTargetPrice /\ baseInput THEN firstAmountIn
            ELSE IF zeroForOne
            THEN whirlpoolGetTokenAmountAFromLiquidity(
                     SqrtPriceX64Next, sqrtPriceX64Current, liquidity, TRUE)
            ELSE whirlpoolGetTokenAmountBFromLiquidity(
                     sqrtPriceX64Current, SqrtPriceX64Next, liquidity, TRUE)
        AmountOut ==
            IF reachTargetPrice /\ ~baseInput THEN firstAmountOut
            ELSE IF zeroForOne
            THEN whirlpoolGetTokenAmountBFromLiquidity(
                     SqrtPriceX64Next, sqrtPriceX64Current, liquidity, FALSE)
            ELSE whirlpoolGetTokenAmountAFromLiquidity(
                     sqrtPriceX64Current, SqrtPriceX64Next, liquidity, FALSE)
        FeeAmount ==
            IF baseInput /\ SqrtPriceX64Next # sqrtPriceX64Target
            THEN amountRemaining - AmountIn
            ELSE whirlpoolMulDivCeil(AmountIn, feeRate,
                                     FEE_RATE_DENOMINATOR - feeRate)
    IN  IF panics THEN StepPanic
        ELSE [kind |-> "ok", sqrtPriceNext |-> SqrtPriceX64Next,
              amountIn |-> AmountIn, amountOut |-> AmountOut,
              feeAmount |-> FeeAmount]

whirlpoolSwapStepCompute(sqrtPriceCurrent, sqrtPriceTarget, liquidity, amountRemaining, feeRate, zeroForOne) ==
    IF liquidity = 0 THEN StepError
    ELSE IF Abs(amountRemaining) = 0
    THEN [kind |-> "ok", sqrtPriceNext |-> sqrtPriceCurrent, amountIn |-> 0,
          amountOut |-> 0, feeAmount |-> 0]
    ELSE whirlpoolSwapStepComputePrecise(sqrtPriceCurrent, sqrtPriceTarget,
                                         liquidity, Abs(amountRemaining),
                                         feeRate, zeroForOne)

priceChangePercentClampsSwapped(liquidityImpact) ==
    LET percent == Quo(liquidityImpact, 100)
    IN  IF percent > 1000 THEN 10
        ELSE IF percent < 10 THEN 1000
        ELSE percent

\* the price change allowed to one quote, in 1/10000 of the current sqrt
\* price: between 0.1% and 10%
priceChangePercent(liquidityImpact) ==
    LET percent == Quo(liquidityImpact, 100)
    IN  IF percent > 1000 THEN 1000
        ELSE IF percent < 10 THEN 10
        ELSE percent

\* pool is a snapshot [sqrtPrice, liquidity, feeRate, tickSpacing, mintA,
\* mintB]; the division by a zero liquidity panics
whirlpoolSwapCompute(pool, zeroForOne, amountSpecified, fee) ==
    IF amountSpecified = 0 THEN Err
    ELSE IF pool.liquidity = 0 THEN Panic
    ELSE
    LET baseInput == amountSpecified > 0
        sqrtPriceX64 == pool.sqrtPrice
        liquidity == pool.liquidity
        sqrtPriceLimitX64 ==
            IF zeroForOne THEN MIN_SQRT_PRICE_X64 ELSE MAX_SQRT_PRICE_X64
        liquidityImpact == Quo(Abs(amountSpecified) * 10000, liquidity)
        targetPrice ==
            IF zeroForOne
            THEN Max(Quo(sqrtPriceX64 * (10000 - priceChangePercent(liquidityImpact)),
                         10000),
                     sqrtPriceLimitX64)
            ELSE Min(Quo(sqrtPriceX64 * (10000 + priceChangePercent(liquidityImpact)),
                         10000),
                     sqrtPriceLimitX64)
        swapStep == whirlpoolSwapStepCompute(sqrtPriceX64, targetPrice, liquidity,
                                             amountSpecified, fee, zeroForOne)
        amountCalculated ==
            IF baseInput THEN -swapStep.amountOut
            ELSE swapStep.amountIn + swapStep.feeAmount
    IN  IF swapStep.kind = "err" THEN Err
        ELSE IF swapStep.kind = "panic" THEN Panic
        ELSE IF amountCalculated = 0 THEN Err
        ELSE Ok(amountCalculated)

ComputeWhirlpoolAmountOutFormat(pool, inputTokenMint, inputAmount) ==
    whirlpoolSwapCompute(pool, inputTokenMint = pool.mintA, inputAmount,
                         pool.feeRate)

validatePoolState(pool) ==
    /\ pool.liquidity # 0
    /\ pool.sqrtPrice # 0
    /\ pool.tickSpacing # 0

\* (the tick arrays cached on the pool are no part of the snapshot)
IsHealthy(pool) ==
    /\ ~(pool.tickSpacing > 64)
    /\ ~(pool.feeRate > 30000)
    /\ pool.liquidity # 0
    /\ pool.sqrtPrice # 0

validateQuoteOutput(outputAmount) == outputAmount # 0

\* WhirlpoolPool.Quote on a snapshot with known numbers; tickArraysOk is the
\* answer of validateTickArraySequence (no critical error)
WhirlpoolQuoteOnSnapshot(pool, inputMint, inputAmount, tickArraysOk) ==
    IF ~validateQuoteInputs(inputMint, inputAmount) THEN Err
    ELSE IF ~validatePoolState(pool) THEN Err
    ELSE IF ~IsHealthy(pool) THEN Err
    ELSE IF inputMint \notin {pool.mintA, pool.mintB} THEN Err
    ELSE IF ~tickArraysOk THEN Err
    ELSE LET priceResult ==
                 ComputeWhirlpoolAmountOutFormat(pool, inputMint, inputAmount)
         IN  IF priceResult.kind # "ok" THEN priceResult
             ELSE IF ~validateQuoteOutput(priceResult.amt) THEN Err
             ELSE Ok(-priceResult.amt)

\* the largest value of the model's integers is 2 * IntLimit - 1
IntLimit == Pow2(30)

\* the products of the arithmetic on this liquidity and this sqrt price stay
\* within the model's integers
Fits(liquidity, sqrtPrice) ==
    Lsh(liquidity, U64Resolution)
        <= ((IntLimit - 1) + IntLimit - MaxAmountIn * sqrtPrice) \div (sqrtPrice + 1)

SqrtPrices == {0, 1, 2, 500, 1023, 1024, 1025, MaxSqrtPrice}
Liquidities == {0, 1, 16, 1024, MaxLiquidity}
FeeRates == {0, 3000, 30000, 999999}
Amounts == {1, 2, 3, 7, 100, 200, 1500, MaxAmountIn}

\* a direct call of whirlpoolSwapStepComputePrecise; exact-output calls
\* (a negative amount) are explored for the A to B direction without fee
SwapStep(sqrtPriceX64Current, sqrtPriceX64Target, liquidity, amountRemaining, feeRate, zeroForOne) ==
    /\ ~step.called
    /\ Fits(liquidity, Max(sqrtPriceX64Current, sqrtPriceX64Target))
    /\ amountRemaining < 0 => (zeroForOne /\ feeRate = 0)
    /\ step' = [called |-> TRUE,
                sqrtPriceX64Current |-> sqrtPriceX64Current,
                sqrtPriceX64Target |-> sqrtPriceX64Target,
                liquidity |-> liquidity,
                amountRemaining |-> amountRemaining,
                feeRate |-> feeRate,
                zeroForOne |-> zeroForOne,
                out |-> whirlpoolSwapStepComputePrecise(
                            sqrtPriceX64Current, sqrtPriceX64Target, liquidity,
                            amountRemaining, feeRate, zeroForOne)]
    /\ UNCHANGED <<pools, lastQuery, gb, call, wq, others, later>>

\* the caller has taken the step's result
StepDone ==
    /\ step.called
    /\ step' = [called |-> FALSE]
    /\ UNCHANGED <<pools, lastQuery, gb, call, wq, others, later>>

NextStep ==
    \/ \E P \in SqrtPrices, T \in SqrtPrices, L \in Liquidities,
          a \in Amounts \cup {0, -1, -2, -40}, f \in FeeRates, z \in BOOLEAN :
           SwapStep(P, T, L, a, f, z)
    \/ StepDone

NoQuote == [amount |-> 0, out |-> Err]

\* the pool snapshots quoted: a decoded Whirlpool account and the mint the
\* quotes are asked for
Snapshots ==
    {[set |-> TRUE,
      pool |-> [sqrtPrice |-> P, liquidity |-> L, feeRate |-> f,
                tickSpacing |-> ts, mintA |-> "SOL", mintB |-> "USDC"],
      inputMint |-> m, prev |-> NoQuote, cur |-> NoQuote] :
        P \in SqrtPrices, L \in {l \in Liquidities : Fits(l, MaxSqrtPrice)},
        f \in {0, 3000, 30000, 40000}, ts \in {64, 128}, m \in {"SOL", "USDC"}}

\* one more Quote on the same snapshot
QuoteOnSnapshot(inputAmount) ==
    /\ wq.set
    /\ \E tickArraysOk \in BOOLEAN :
         wq' = [wq EXCEPT
                  !.prev = wq.cur,
                  !.cur = [amount |-> inputAmount,
                           out |-> WhirlpoolQuoteOnSnapshot(
                                       wq.pool, wq.inputMint, inputAmount,
                                       tickArraysOk)]]
    /\ UNCHANGED <<pools, lastQuery, gb, call, step, others, later>>

NextQuote == \E a \in Amounts : QuoteOnSnapshot(a)

----------------------------------------------------------------------------
(* Specifications *)

NoStep == [called |-> FALSE]

NoSnapshot == [set |-> FALSE]

NoClmm == [set |-> FALSE]

NoCalc == [op |-> "none"]

NoTx == [called |-> FALSE]

NoProc == [set |-> FALSE]

OthersIdle == clmm = NoClmm /\ calc = NoCalc /\ tx = NoTx /\ proc = NoProc

NoSwapCompute == [set |-> FALSE]

NoConc == [set |-> FALSE]

NoWpool == [set |-> FALSE]

NoProbe == [called |-> FALSE]

RestIdle == sc = NoSwapCompute /\ conc = NoConc /\ wpool = NoWpool /\ probe = NoProbe

\* NewSimpleRouter: no pools yet; no adapter call in progress
Init ==
    /\ pools = <<>>
    /\ lastQuery = NoQuery
    /\ gb = IdleCall
    /\ call = NoCall
    /\ step = NoStep
    /\ wq = NoSnapshot
    /\ OthersIdle
    /\ RestIdle

Next ==
    \/ \E b \in Mints, q \in Mints : b # q /\ QueryAllPools(b, q)
    \/ \E t \in Mints, a \in AmountsIn : GetBestPoolStart(t, a)
    \/ QuoteNext
    \/ GetBestPoolReturn
    \/ NextRequest

\* the router, over adapters and pools that answer as the chain lets them
Spec == Init /\ [][Next]_vars

\* the protocol adapters, called directly
SpecAdapter == Init /\ [][NextAdapter]_vars

\* the swap step, called directly on bounded arguments
SpecStep == Init /\ [][NextStep]_vars

\* a decoded Whirlpool pool, quoted again and again
InitQuote ==
    /\ pools = <<>>
    /\ lastQuery = NoQuery
    /\ gb = IdleCall
    /\ call = NoCall
    /\ step = NoStep
    /\ wq \in Snapshots
    /\ OthersIdle
    /\ RestIdle

SpecQuote == InitQuote /\ [][NextQuote]_vars

----------------------------------------------------------------------------
(* Router claims *)

KindOf(id) == PoolOf(id).kind

ProtoIndex(k) == CHOOSE i \in 1..Len(Protocols) : Protocols[i] = k

\* the pools that the latest QueryAllPools call appended
Discovered ==
    SubSeq(lastQuery.returned, lastQuery.before + 1, Len(lastQuery.returned))

OfKind(seq, k) == SelectSeq(seq, LAMBDA id : KindOf(id) = k)

Returned == gb.pc = "returned" /\ ~gb.err

QuotedOk(j) == gb.quotes[j].kind = "ok"

\* the input of the GetBestPool call is not a valid input of pool number j
InvalidInputFor(j) ==
    \/ gb.amountIn <= 0
    \/ gb.tokenIn \notin {PoolOf(pools[j]).mint0, PoolOf(pools[j]).mint1}

\* C1: when GetBestPool returns a pool, the returned amount is that pool's
\* quote, no pool quoted successfully with a larger amount, and the returned
\* pool is the earliest (in list order) of those that quoted the maximum.
C1_RouterArgmax ==
    Returned =>
        /\ gb.best \in 1..Len(pools)
        /\ Len(gb.quotes) = Len(pools)
        /\ gb.quotes[gb.best] = Ok(gb.amount)
        /\ \A j \in 1..Len(pools) : QuotedOk(j) => gb.quotes[j].amt <= gb.amount
        /\ \A j \in 1..(gb.best - 1) :
               ~(QuotedOk(j) /\ gb.quotes[j].amt = gb.amount)

C1_Witness ==
    /\ Returned
    /\ \E j \in 1..Len(pools) :
           j > gb.best /\ QuotedOk(j) /\ gb.quotes[j].amt = gb.amount
    /\ \E j \in 1..Len(pools) :
           QuotedOk(j) /\ gb.quotes[j].amt > 0 /\ gb.quotes[j].amt < gb.amount

\* C2: a pool whose Quote fails is skipped without failing the call: once
\* some pool of the list has quoted a positive amount, GetBestPool does not
\* abort, whatever way another pool's Quote fails.
C2_FailingQuoteSkipped ==
    (\E j \in 1..Len(gb.quotes) : QuotedOk(j) /\ gb.quotes[j].amt > 0)
        => gb.pc # "panicked"

C4_ReturnedPositive ==
    Returned => (gb.best # 0 /\ gb.amount > 0)

C4_Witness ==
    /\ Returned
    /\ \E j \in 1..Len(gb.quotes) : QuotedOk(j) /\ gb.quotes[j].amt <= 0

C6_RouterStateless ==
    lastQuery.called =>
        lastQuery.returned =
            QueryLoop(1, <<>>, lastQuery.baseMint, lastQuery.quoteMint,
                      lastQuery.failed, lastQuery.bad)

\* C8: Quote rejects invalid input (zero amount, negative amount, a mint that
\* is neither of the pool's mints) instead of quoting.
C8_QuoteRejectsInvalidInput ==
    \A j \in 1..Len(gb.quotes) : InvalidInputFor(j) => gb.quotes[j].kind # "ok"

\* C7 (as claimed): a successful FetchPoolByID returns a pool whose PoolId is
\* the requested id, and every address derived for that pool is derived from
\* the requested id.
C7_FetchedPoolHasRequestedId ==
    (call.op = "FetchPoolByID" /\ call.pc = "returned" /\ call.err = "")
        => /\ call.pool.PoolId = call.poolID
           /\ call.pool.BitmapExtensionKey
                  \in {<<>>, DeriveBinArrayBitmapExtension(call.poolID)}

\* C9: on a fixed pool snapshot and direction, the Whirlpool Quote is
\* nondecreasing in the input amount: of two successful quotes, the one for
\* the larger input reports at least as much output.
C9_QuoteNondecreasing ==
    (wq.set /\ wq.prev.out.kind = "ok" /\ wq.cur.out.kind = "ok")
        => /\ wq.prev.amount <= wq.cur.amount
                  => wq.prev.out.amt <= wq.cur.out.amt
           /\ wq.cur.amount <= wq.prev.amount
                  => wq.cur.out.amt <= wq.prev.out.amt

C9_Witness ==
    /\ wq.set
    /\ wq.prev.out.kind = "ok" /\ wq.cur.out.kind = "ok"
    /\ wq.prev.amount < wq.cur.amount
    /\ 0 < wq.prev.out.amt /\ wq.prev.out.amt < wq.cur.out.amt

\* C10: in every exact-input swap step (amountRemaining > 0, liquidity > 0,
\* fee rate below 1,000,000) the step's amountIn plus feeAmount is at most
\* the amount remaining, and feeAmount is not negative.
C10_StepWithinRemaining ==
    (/\ step.called
     /\ step.amountRemaining > 0
     /\ step.liquidity > 0
     /\ step.feeRate < FEE_RATE_DENOMINATOR
     /\ step.out.kind = "ok")
        => /\ step.out.amountIn + step.out.feeAmount <= step.amountRemaining
           /\ step.out.feeAmount >= 0

C10_Witness ==
    /\ step.called
    /\ step.amountRemaining > 0 /\ step.liquidity > 0
    /\ step.feeRate > 0 /\ step.feeRate < FEE_RATE_DENOMINATOR
    /\ step.out.kind = "ok"
    /\ step.out.sqrtPriceNext # step.sqrtPriceX64Target
    /\ step.out.sqrtPriceNext # step.sqrtPriceX64Current
    /\ step.out.amountIn > 0 /\ step.out.feeAmount > 0

----------------------------------------------------------------------------
(* Raydium CLMM: the pool object, Quote step by step, BuildSwapInstructions *)
(*                                                                          *)
(* Tick arrays are named by their position: array k starts at tick          *)
(* k * TickSpacing * 60.  The pool's own TickArrayBitmap covers the arrays  *)
(* -BitmapArrays .. BitmapArrays - 1 (512 on each side in the source), the  *)
(* extension account the ExtensionArrays arrays beyond them on each side.   *)

BitmapArrays == 1
ExtensionArrays == 1
MaxBuilds == 2      \* BuildSwapInstructions calls followed on one pool object
MaxChainMoves == 1  \* changes of the extension account followed

DefaultRange == (0 - BitmapArrays)..(BitmapArrays - 1)
ArrayIndices == (0 - BitmapArrays - ExtensionArrays)..(BitmapArrays + ExtensionArrays - 1)
ExtensionRange == ArrayIndices \ DefaultRange

TokenMint0 == "SOL"
TokenMint1 == "USDC"
ClmmPoolId == "c1"

\* pool.exTickArrayBitmap: a nil pointer until ParseExBitmapInfo stores one
NilBitmap == [nil |-> TRUE, bits |-> {}]
Bitmap(bits) == [nil |-> FALSE, bits |-> bits]

Found(n) == [kind |-> "ok", idx |-> n]
NotFound == [kind |-> "none", idx |-> 0]
Panicked == [kind |-> "panic", idx |-> 0]

\* is tick array n initialized: the pool's bitmap inside the default range,
\* the extension bitmap (dereferenced) outside it
checkTickArrayIsInit(n, bitmap, ex) ==
    IF n \in DefaultRange THEN Found(n \in bitmap)
    ELSE IF ex.nil THEN Panicked
    ELSE Found(n \in ex.bits)

RECURSIVE nextInitializedTickArray(_, _, _, _)
\* the next initialized tick array strictly beyond array j in the swap's
\* direction (down for zeroForOne); (0, false) when there is none
nextInitializedTickArray(j, zeroForOne, bitmap, ex) ==
    LET n == IF zeroForOne THEN j - 1 ELSE j + 1
    IN  IF n \notin ArrayIndices THEN NotFound
        ELSE LET c == checkTickArrayIsInit(n, bitmap, ex)
             IN  IF c.kind = "panic" THEN Panicked
                 ELSE IF c.idx THEN Found(n)
                 ELSE nextInitializedTickArray(n, zeroForOne, bitmap, ex)

\* the tick array of the current tick when it is initialized, else the next
\* initialized one in the swap's direction, else an error
getFirstInitializedTickArray(p, zeroForOne, ex) ==
    LET c == checkTickArrayIsInit(p.TickCurrent, p.TickArrayBitmap, ex)
    IN  IF c.kind = "panic" THEN Panicked
        ELSE IF c.idx THEN Found(p.TickCurrent)
        ELSE nextInitializedTickArray(p.TickCurrent, zeroForOne,
                                      p.TickArrayBitmap, ex)

getPdaTickArrayAddress(poolId, startIndex) == <<"tick_array", poolId, startIndex>>

GetPdaExBitmapAccount(poolId) == <<"pool_tick_array_bitmap_extension", poolId>>

FindAssociatedTokenAddress(wallet, mint) == <<"ata", wallet, mint>>

\* CLMMPool.GetRemainAccounts
GetRemainAccounts(p, inputTokenMint) ==
    LET zeroForOne == inputTokenMint = TokenMint0
        first == getFirstInitializedTickArray(p, zeroForOne, p.exTickArrayBitmap)
        next == nextInitializedTickArray(p.TickCurrent, zeroForOne,
                                         p.TickArrayBitmap, p.exTickArrayBitmap)
        firstTickArray == getPdaTickArrayAddress(ClmmPoolId, first.idx)
        nextAddress == getPdaTickArrayAddress(ClmmPoolId, next.idx)
    IN  IF first.kind = "panic" THEN [kind |-> "panic", accounts |-> <<>>]
        ELSE IF first.kind = "none" THEN [kind |-> "err", accounts |-> <<>>]
        ELSE IF next.kind = "panic" THEN [kind |-> "panic", accounts |-> <<>>]
        ELSE [kind |-> "ok",
              accounts |-> IF nextAddress # firstTickArray
                           THEN <<firstTickArray, nextAddress>>
                           ELSE <<firstTickArray>>]

Meta(key, isWritable, isSigner) == [key |-> key, w |-> isWritable, s |-> isSigner]

RECURSIVE WritableMetas(_)
WritableMetas(keys) ==
    IF keys = <<>> THEN <<>>
    ELSE <<Meta(Head(keys), TRUE, FALSE)>> \o WritableMetas(Tail(keys))

\* the user token accounts BuildSwapInstructions stores in the pool
UserAccounts(userAddr, inputMint) ==
    IF inputMint = TokenMint0
    THEN [base |-> FindAssociatedTokenAddress(userAddr, inputMint),
          quote |-> FindAssociatedTokenAddress(userAddr, TokenMint1)]
    ELSE [quote |-> FindAssociatedTokenAddress(userAddr, inputMint),
          base |-> FindAssociatedTokenAddress(userAddr, TokenMint0)]

\* CLMMPool.BuildSwapInstructions: the instruction it returns (its data as
\* RayCLMMSwapInstruction.Data lays it out, its account metas), or an error
BuildSwapInstructions(p, userAddr, inputMint, amountIn, minOut) ==
    LET isBase == inputMint = TokenMint0
        ua == UserAccounts(userAddr, inputMint)
        inputValueMint == IF isBase THEN TokenMint0 ELSE TokenMint1
        outputValueMint == IF isBase THEN TokenMint1 ELSE TokenMint0
        inputValue == IF isBase THEN "TokenVault0" ELSE "TokenVault1"
        outputValue == IF isBase THEN "TokenVault1" ELSE "TokenVault0"
        fromAccount == IF isBase THEN ua.base ELSE ua.quote
        toAccount == IF isBase THEN ua.quote ELSE ua.base
        fixed == << Meta(<<userAddr>>, FALSE, TRUE),
                    Meta(<<"AmmConfig">>, FALSE, FALSE),
                    Meta(<<ClmmPoolId>>, TRUE, FALSE),
                    Meta(fromAccount, TRUE, FALSE),
                    Meta(toAccount, TRUE, FALSE),
                    Meta(<<inputValue>>, TRUE, FALSE),
                    Meta(<<outputValue>>, TRUE, FALSE),
                    Meta(<<"ObservationKey">>, TRUE, FALSE),
                    Meta(<<"TokenProgramID">>, FALSE, FALSE),
                    Meta(<<"TOKEN_2022_PROGRAM_ID">>, FALSE, FALSE),
                    Meta(<<"MEMO_PROGRAM_ID">>, FALSE, FALSE),
                    Meta(<<inputValueMint>>, FALSE, FALSE),
                    Meta(<<outputValueMint>>, FALSE, FALSE),
                    Meta(GetPdaExBitmapAccount(ClmmPoolId), TRUE, FALSE) >>
        remaining == GetRemainAccounts(p, inputValueMint)
    IN  IF remaining.kind # "ok"
        THEN [kind |-> remaining.kind, data |-> <<>>, accounts |-> <<>>]
        ELSE [kind |-> "ok",
              data |-> <<amountIn, minOut, 0, 0, isBase>>,
              accounts |-> fixed \o WritableMetas(remaining.accounts)]

\* CLMMPool.GetTickArrayAddresses: the initialized tick arrays the pool's
\* bitmap and its loaded extension name, in ascending order
RECURSIVE Ascending(_)
Ascending(S) ==
    IF S = {} THEN <<>>
    ELSE LET m == CHOOSE x \in S : \A y \in S : x <= y
         IN  <<m>> \o Ascending(S \ {m})

GetTickArrayAddresses(p) == Ascending(p.TickArrayBitmap \cup p.exTickArrayBitmap.bits)

ClmmUsers == {"alice"}
ClmmInputMints == {TokenMint0, TokenMint1}
ClmmAmountsIn == {1}
ClmmMinOuts == {0}

NoBuild == [called |-> FALSE]

\* a CLMM pool as FetchPoolsByPair returns it (Decode fills the layout's
\* fields; the extension bitmap and the tick array cache are empty), and the
\* chain behind it: the extension account's bitmap, and the tick array
\* accounts whose data does not decode
ClmmPools ==
    [set : {TRUE},
     TickCurrent : ArrayIndices,
     TickArrayBitmap : SUBSET DefaultRange,
     chainEx : {{}},
     chainMoves : {0},
     chainBad : {{}, {0}},
     exTickArrayBitmap : {NilBitmap},
     TickArrayCache : {{}},
     UserBaseAccount : {<<>>},
     UserQuoteAccount : {<<>>},
     pc : {"idle"},
     inputMint : {""},
     results : {<<>>},
     i : {0},
     before : {[ex |-> NilBitmap, cache |-> {}]},
     quote : {"none"},
     builds : {0},
     log : {<<>>},
     refreshed : {{}},
     simReads : {{}},
     prev : {NoBuild},
     last : {NoBuild}]

\* Quote is entered
ClmmQuoteStart(inputMint) ==
    /\ clmm.set /\ clmm.pc = "idle"
    /\ clmm' = [clmm EXCEPT !.pc = "GetExBitmap", !.inputMint = inputMint,
                            !.quote = "none",
                            !.log = <<>>, !.refreshed = {}, !.simReads = {},
                            !.before = [ex |-> clmm.exTickArrayBitmap,
                                        cache |-> clmm.TickArrayCache]]
    /\ UNCHANGED <<base, calc, tx, proc, later>>

\* the first GetMultipleAccountsWithOpts fails (RPC error, cancellation)
ClmmExBitmapFails ==
    /\ clmm.set /\ clmm.pc = "GetExBitmap"
    /\ clmm' = [clmm EXCEPT !.pc = "idle", !.quote = "err",
                            !.log = Append(@, "ex_failed"),
                            !.results = <<>>, !.i = 0]
    /\ UNCHANGED <<base, calc, tx, proc, later>>

\* ... or answers: ParseExBitmapInfo stores the extension bitmap in the pool
ClmmExBitmapArrives ==
    /\ clmm.set /\ clmm.pc = "GetExBitmap"
    /\ clmm' = [clmm EXCEPT !.pc = "GetTickArrays",
                            !.log = Append(@, "ex"),
                            !.exTickArrayBitmap = Bitmap(clmm.chainEx)]
    /\ UNCHANGED <<base, calc, tx, proc, later>>

\* the mutant of ClmmTickArraysFail: the error of the second request is
\* dropped and Quote goes on with no account to decode
ClmmTickArraysFailIgnored ==
    /\ clmm.set /\ clmm.pc = "GetTickArrays"
    /\ clmm' = [clmm EXCEPT !.pc = "Decode", !.i = 1, !.results = <<>>,
                            !.log = Append(@, "ticks_failed")]
    /\ UNCHANGED <<base, calc, tx, proc, later>>

\* the second GetMultipleAccountsWithOpts fails
ClmmTickArraysFail ==
    /\ clmm.set /\ clmm.pc = "GetTickArrays"
    /\ clmm' = [clmm EXCEPT !.pc = "idle", !.quote = "err",
                            !.log = Append(@, "ticks_failed"),
                            !.results = <<>>, !.i = 0]
    /\ UNCHANGED <<base, calc, tx, proc, later>>

\* ... or answers with the accounts of GetTickArrayAddresses
ClmmTickArraysArrive ==
    /\ clmm.set /\ clmm.pc = "GetTickArrays"
    /\ clmm' = [clmm EXCEPT !.pc = "Decode", !.i = 1,
                            !.log = Append(@, "ticks"),
                            !.results = GetTickArrayAddresses(clmm)]
    /\ UNCHANGED <<base, calc, tx, proc, later>>

\* one iteration of the loop over results.Value: a tick array that does not
\* decode ends Quote with an error, a decoded one is stored in the cache
ClmmDecodeNext ==
    /\ clmm.set /\ clmm.pc = "Decode" /\ clmm.i <= Len(clmm.results)
    /\ LET k == clmm.results[clmm.i]
       IN  clmm' = IF k \in clmm.chainBad
                   THEN [clmm EXCEPT !.pc = "idle", !.quote = "err",
                                     !.log = Append(@, "ticks_failed"),
                                     !.results = <<>>, !.i = 0]
                   ELSE [clmm EXCEPT !.i = clmm.i + 1,
                                     !.refreshed = @ \cup {k},
                                     !.TickArrayCache = clmm.TickArrayCache \cup {k}]
    /\ UNCHANGED <<base, calc, tx, proc, later>>

\* the tick arrays swapCompute loads from the cache: the first one and, when
\* the swap leaves it (far), every initialized one the bitmaps name beyond it
SimReads(p, zeroForOne, first, far) ==
    {first} \cup {n \in ArrayIndices :
                    /\ far
                    /\ IF zeroForOne THEN n < first ELSE first < n
                    /\ checkTickArrayIsInit(n, p.TickArrayBitmap, p.exTickArrayBitmap).idx}

\* after the loop: ComputeAmountOutFormat on the refreshed pool
ClmmQuoteReturn ==
    /\ clmm.set /\ clmm.pc = "Decode" /\ clmm.i > Len(clmm.results)
    /\ LET zeroForOne == clmm.inputMint = TokenMint0
           first == getFirstInitializedTickArray(clmm, zeroForOne, clmm.exTickArrayBitmap)
       IN  \E sim \in {"ok", "err"}, far \in BOOLEAN :
             clmm' = [clmm EXCEPT !.pc = "idle", !.results = <<>>, !.i = 0,
                                  !.log = Append(@, "sim"),
                                  !.simReads = IF first.kind = "ok"
                                               THEN SimReads(clmm, zeroForOne, first.idx, far)
                                               ELSE {},
                                  !.quote = IF first.kind = "ok" THEN sim ELSE "err"]
    /\ UNCHANGED <<base, calc, tx, proc, later>>

\* one BuildSwapInstructions call
ClmmBuild(userAddr, inputMint, amountIn, minOut) ==
    /\ clmm.set /\ clmm.pc = "idle"
    /\ clmm.builds < MaxBuilds
    /\ LET ua == UserAccounts(userAddr, inputMint)
           out == BuildSwapInstructions(clmm, userAddr, inputMint, amountIn, minOut)
       IN  clmm' = [clmm EXCEPT
                      !.UserBaseAccount = ua.base,
                      !.UserQuoteAccount = ua.quote,
                      !.pc = IF out.kind = "panic" THEN "panicked" ELSE "idle",
                      !.builds = clmm.builds + 1,
                      !.prev = clmm.last,
                      !.last = [called |-> TRUE,
                                args |-> <<userAddr, inputMint, amountIn, minOut>>,
                                out |-> out]]
    /\ UNCHANGED <<base, calc, tx, proc, later>>

\* the chain moves on: swaps initialize and empty tick arrays, the extension
\* account's bitmap changes; the pool object is not told
ClmmChainMoves ==
    /\ clmm.set /\ clmm.pc = "idle"
    /\ clmm.chainMoves < MaxChainMoves
    /\ \E bits \in SUBSET ExtensionRange :
         /\ bits # clmm.chainEx
         /\ clmm' = [clmm EXCEPT !.chainEx = bits, !.chainMoves = @ + 1]
    /\ UNCHANGED <<base, calc, tx, proc, later>>

NextClmm ==
    \/ \E m \in ClmmInputMints : ClmmQuoteStart(m)
    \/ ClmmExBitmapFails
    \/ ClmmExBitmapArrives
    \/ ClmmTickArraysFail
    \/ ClmmTickArraysArrive
    \/ ClmmDecodeNext
    \/ ClmmQuoteReturn
    \/ ClmmChainMoves
    \/ \E u \in ClmmUsers, m \in ClmmInputMints, a \in ClmmAmountsIn, o \in ClmmMinOuts :
         ClmmBuild(u, m, a, o)

InitClmm ==
    /\ pools = <<>>
    /\ lastQuery = NoQuery
    /\ gb = IdleCall
    /\ call = NoCall
    /\ step = NoStep
    /\ wq = NoSnapshot
    /\ clmm \in ClmmPools
    /\ calc = NoCalc /\ tx = NoTx /\ proc = NoProc
    /\ RestIdle

\* one CLMM pool object, quoted and built from in any order
SpecClmm == InitClmm /\ [][NextClmm]_vars

NextClmmQuote ==
    \/ \E m \in ClmmInputMints : ClmmQuoteStart(m)
    \/ ClmmExBitmapFails
    \/ ClmmExBitmapArrives
    \/ ClmmTickArraysFail
    \/ ClmmTickArraysArrive
    \/ ClmmDecodeNext
    \/ ClmmQuoteReturn
    \/ ClmmChainMoves

\* one CLMM pool object, quoted again and again while the chain moves
SpecClmmQuote == InitClmm /\ [][NextClmmQuote]_vars

\* C11: two BuildSwapInstructions calls on one CLMM pool with the same user,
\* input mint, amount in and min out return the same result (the same
\* instruction data and the same account metas), whatever was run on the pool
\* object between them
C11_BuildDeterministic ==
    (clmm.set /\ clmm.prev.called /\ clmm.last.called
       /\ clmm.prev.args = clmm.last.args)
    => clmm.prev.out = clmm.last.out

\* C12: a CLMM Quote that ended in an error left the pool's extension bitmap
\* and its tick array cache as they were when it was entered
C12_FailedQuoteLeavesNoState ==
    (clmm.set /\ clmm.pc = "idle" /\ clmm.quote = "err")
    => /\ clmm.exTickArrayBitmap = clmm.before.ex
       /\ clmm.TickArrayCache = clmm.before.cache

----------------------------------------------------------------------------
(* Account codec: CLMMPool.Decode and WhirlpoolPool.Decode                  *)
(*                                                                          *)
(* A decoder walks its layout with a running offset.  data[offset] panics   *)
(* when offset >= len(data); data[offset : offset+w] panics only when       *)
(* offset+w > cap(data), so a slice with spare capacity is read beyond its  *)
(* length.                                                                  *)

Index == <<"index", 1>>
Slice(w) == <<"slice", w>>
Skip(w) == <<"skip", w>>

RECURSIVE Times(_, _)
Times(n, fields) == IF n = 0 THEN <<>> ELSE fields \o Times(n - 1, fields)

\* one RewardInfo of a CLMM pool
ClmmRewardInfoLayout ==
    << Index, Slice(8), Slice(8), Slice(8), Slice(16), Slice(8), Slice(8),
       Slice(32), Slice(32), Slice(32), Slice(16) >>

\* the reads of CLMMPool.Decode, in order
ClmmLayout ==
    << Index >> \o Times(7, << Slice(32) >>) \o << Index, Index, Slice(2) >>
    \o << Slice(16), Slice(16), Slice(4), Slice(2), Slice(2), Slice(16), Slice(16),
          Slice(8), Slice(8), Slice(16), Slice(16), Slice(16), Slice(16),
          Index, Skip(7) >>
    \o Times(3, ClmmRewardInfoLayout)
    \o Times(16, << Slice(8) >>)
    \o Times(8, << Slice(8) >>)
    \o << Skip(24 * 8), Skip(32 * 8) >>

\* one reward info of a Whirlpool
WhirlpoolRewardInfoLayout ==
    << Slice(32), Slice(32), Slice(32), Slice(16), Slice(16) >>

\* the reads of WhirlpoolPool.Decode, in order
WhirlpoolLayout ==
    << Slice(32), Slice(1), Slice(2), Slice(2), Slice(2), Slice(2), Slice(16),
       Slice(16), Slice(4), Slice(8), Slice(8), Slice(32), Slice(32), Slice(16),
       Slice(32), Slice(32), Slice(16), Slice(8) >>
    \o Times(3, WhirlpoolRewardInfoLayout)

ClmmSpan == 1544
WHIRLPOOL_SIZE == 653

\* the value of offset when field i is read
OffsetOf(layout) ==
    LET off[i \in 1..Len(layout)] == IF i = 1 THEN 0 ELSE off[i - 1] + layout[i - 1][2]
    IN  off

\* the reads of the layout over a slice of length n and capacity c: the
\* first read that is out of range panics; pastEnd tells whether a read
\* made before that went beyond the n bytes of the slice
DecodeWalk(layout, n, c) ==
    LET off == OffsetOf(layout)
        OutOfRange(i) ==
            \/ layout[i][1] = "index" /\ off[i] >= n
            \/ layout[i][1] = "slice" /\ off[i] + layout[i][2] > c
        bad == {i \in 1..Len(layout) : OutOfRange(i)}
        stop == IF bad = {} THEN Len(layout) + 1
                ELSE CHOOSE i \in bad : \A j \in bad : i <= j
        past == \E i \in 1..(stop - 1) :
                    layout[i][1] = "slice" /\ off[i] + layout[i][2] > n
    IN  [kind |-> IF bad = {} THEN "ok" ELSE "panic", pastEnd |-> past]

\* Decode(data) for len(data) = n, cap(data) = c: the discriminator is
\* skipped when there are more than 8 bytes, then the layout is read
Decode(layout, n, c) ==
    IF n > 8 THEN DecodeWalk(layout, n - 8, c - 8)
    ELSE DecodeWalk(layout, n, c)

DataLens == {0, 1, 8, 9, 40, 652, 653, 654, 1095, 1096, 1543, 1544, 1545, 1600}
SpareCaps == {0, 64, 2048}

CallClmmDecode(n, spare) ==
    /\ calc.op = "none"
    /\ calc' = [op |-> "CLMMPool.Decode", len |-> n, cap |-> n + spare,
                span |-> ClmmSpan, out |-> Decode(ClmmLayout, n, n + spare)]
    /\ UNCHANGED <<base, clmm, tx, proc, later>>

CallWhirlpoolDecode(n, spare) ==
    /\ calc.op = "none"
    /\ calc' = [op |-> "WhirlpoolPool.Decode", len |-> n, cap |-> n + spare,
                span |-> WHIRLPOOL_SIZE, out |-> Decode(WhirlpoolLayout, n, n + spare)]
    /\ UNCHANGED <<base, clmm, tx, proc, later>>

IsDecode == calc.op \in {"CLMMPool.Decode", "WhirlpoolPool.Decode"}

\* C13: Decode returns an error for every input shorter than the pool's
\* layout, succeeds on every input at least that long, and in no case reads
\* beyond the end of its input
C13_DecodeLengthChecked ==
    IsDecode => /\ (calc.len < calc.span => calc.out.kind = "err")
                /\ (calc.len >= calc.span => calc.out.kind = "ok")
                /\ ~calc.out.pastEnd

----------------------------------------------------------------------------
(* Whirlpool adapter: tick arrays of the pools FetchPoolsByPair returns *)

WhirlpoolPairResult ==
    IF call.op = "FetchPoolsByPair" /\ call.proto = "orca_whirlpool"
    THEN {call.result[k] : k \in 1..Len(call.result)} ELSE {}

\* C18: every pool the Whirlpool FetchPoolsByPair keeps has, in both swap
\* directions, a primary tick array that exists and in which no tick has a
\* liquidity_net beyond 10^18 in absolute value
C18_ReturnedPoolsHaveSaneTickArrays ==
    \A p \in WhirlpoolPairResult : \A d \in 1..2 :
        /\ p.tickArrays[d].primary = "ok"
        /\ \A k \in 1..Len(p.tickArrays[d].LiquidityNets) :
             Abs(p.tickArrays[d].LiquidityNets[k]) <= CriticalLiquidityNet

----------------------------------------------------------------------------
(* Integer kernel: MulDiv, MulShr, ShlDiv (Meteora) and the Whirlpool       *)
(* mul-div helpers, as calls that return, fail or panic                     *)

\* the zero cosmath.Int{} that whirlpoolMulDivCeil returns for a zero divisor
Placeholder == [kind |-> "placeholder", amt |-> 0]

Roundings == {"RoundingUp", "RoundingDown"}

\* big.Int.DivMod panics on a zero divisor
MulDiv(x, y, denominator, rounding) ==
    IF denominator = 0 THEN Panic
    ELSE LET prod == x * y
             div == prod \div denominator
             mod == prod % denominator
         IN  IF rounding = "RoundingUp" /\ mod # 0 THEN Ok(div + 1) ELSE Ok(div)

MulShr(x, y, offset, rounding) ==
    LET scale == Lsh(1, offset)
    IN  IF scale = 0 THEN Err ELSE MulDiv(x, y, scale, rounding)

ShlDiv(x, y, offset, rounding) ==
    LET scale == Lsh(1, offset)
    IN  IF scale = 0 THEN Err ELSE MulDiv(x, scale, y, rounding)

\* whirlpoolMulDivFloor with its guard: panic("division by zero")
whirlpoolMulDivFloorCall(a, b, denominator) ==
    IF denominator = 0 THEN Panic ELSE Ok(whirlpoolMulDivFloor(a, b, denominator))

\* whirlpoolMulDivCeil with its guard: return cosmath.Int{}
whirlpoolMulDivCeilCall(a, b, denominator) ==
    IF denominator = 0 THEN Placeholder ELSE Ok(whirlpoolMulDivCeil(a, b, denominator))

KernelOperands == {0, 1, 7}
KernelDivisors == {0, 1, 3}
KernelOffsets == {0, 1, 8}

KernelCall(op, x, y, divisor, out) ==
    [op |-> op, x |-> x, y |-> y, divisor |-> divisor, out |-> out]

CallMulDiv(x, y, denominator, rounding) ==
    /\ calc.op = "none"
    /\ calc' = KernelCall("MulDiv", x, y, denominator,
                          MulDiv(x, y, denominator, rounding))
    /\ UNCHANGED <<base, clmm, tx, proc, later>>

CallMulShr(x, y, offset, rounding) ==
    /\ calc.op = "none"
    /\ calc' = KernelCall("MulShr", x, y, Lsh(1, offset),
                          MulShr(x, y, offset, rounding))
    /\ UNCHANGED <<base, clmm, tx, proc, later>>

CallShlDiv(x, y, offset, rounding) ==
    /\ calc.op = "none"
    /\ calc' = KernelCall("ShlDiv", x, offset, y, ShlDiv(x, y, offset, rounding))
    /\ UNCHANGED <<base, clmm, tx, proc, later>>

CallWhirlpoolMulDivFloor(a, b, denominator) ==
    /\ calc.op = "none"
    /\ calc' = KernelCall("whirlpoolMulDivFloor", a, b, denominator,
                          whirlpoolMulDivFloorCall(a, b, denominator))
    /\ UNCHANGED <<base, clmm, tx, proc, later>>

CallWhirlpoolMulDivCeil(a, b, denominator) ==
    /\ calc.op = "none"
    /\ calc' = KernelCall("whirlpoolMulDivCeil", a, b, denominator,
                          whirlpoolMulDivCeilCall(a, b, denominator))
    /\ UNCHANGED <<base, clmm, tx, proc, later>>

KernelOps == {"MulDiv", "MulShr", "ShlDiv", "whirlpoolMulDivFloor", "whirlpoolMulDivCeil"}

\* C14: a kernel call with a zero divisor returns an error: it neither
\* aborts the program nor returns a number
C14_ZeroDivisorIsError ==
    (calc.op \in KernelOps /\ calc.divisor = 0) => calc.out.kind = "err"

----------------------------------------------------------------------------
(* Whirlpool tick arrays: start index of the array that holds a tick *)

TICK_ARRAY_SIZE == 88
MAX_TICK == 443636
MIN_TICK == 0 - MAX_TICK

\* Go's % : the remainder of the division truncated toward zero
Rem(a, b) == a - b * Quo(a, b)

getWhirlpoolTickCount(tickSpacing) == tickSpacing * TICK_ARRAY_SIZE

getWhirlpoolTickArrayStartIndex(tick, tickSpacing) ==
    tick - Rem(tick, getWhirlpoolTickCount(tickSpacing))

\* math.Floor of the float64 quotient, times ticksInArray (exact here: the
\* operands are far below 2^53)
getWhirlpoolTickArrayStartIndexByTick(tickIndex, tickSpacing) ==
    LET ticksInArray == getWhirlpoolTickCount(tickSpacing)
    IN  (tickIndex \div ticksInArray) * ticksInArray

getOfficialTickArrayStartIndex(tickIndex, tickSpacing, offset) ==
    LET dividend == tickIndex
        divisor == tickSpacing * TICK_ARRAY_SIZE
        realIndex == IF dividend >= 0 THEN Quo(dividend, divisor)
                     ELSE IF Rem(dividend, divisor) # 0
                          THEN Quo(dividend, divisor) - 1
                          ELSE Quo(dividend, divisor)
        startTickIndex == (realIndex + offset) * tickSpacing * TICK_ARRAY_SIZE
        ticksInArray == TICK_ARRAY_SIZE * tickSpacing
        minTickIndex == MIN_TICK - (Rem(MIN_TICK, ticksInArray) + ticksInArray)
        maxBoundary == MAX_TICK + ticksInArray
        minBoundary == minTickIndex - ticksInArray
    IN  IF startTickIndex < minBoundary THEN Err
        ELSE IF startTickIndex > maxBoundary THEN Err
        ELSE Ok(startTickIndex)

Ticks == {MIN_TICK, -177, -176, -89, -88, -87, -1, 0, 1, 87, 88, 89, MAX_TICK}
TickSpacings == {1, 2, 64, 128}

CallTickArrayStartIndex(tick, tickSpacing) ==
    /\ calc.op = "none"
    /\ calc' = [op |-> "TickArrayStartIndex", tick |-> tick, tickSpacing |-> tickSpacing,
                start |-> getWhirlpoolTickArrayStartIndex(tick, tickSpacing),
                byTick |-> getWhirlpoolTickArrayStartIndexByTick(tick, tickSpacing),
                official |-> getOfficialTickArrayStartIndex(tick, tickSpacing, 0)]
    /\ UNCHANGED <<base, clmm, tx, proc, later>>

\* C15: the three start-index helpers agree on every tick and spacing, and
\* their value is the multiple of 88 * spacing at or below the tick, less
\* than 88 * spacing away from it
C15_TickArrayStartFloors ==
    calc.op = "TickArrayStartIndex" =>
        LET n == TICK_ARRAY_SIZE * calc.tickSpacing
        IN  /\ calc.official = Ok(calc.start)
            /\ calc.byTick = calc.start
            /\ calc.start % n = 0
            /\ calc.start <= calc.tick /\ calc.tick < calc.start + n

----------------------------------------------------------------------------
(* Meteora DLMM: bin arrays and bin prices *)

MaxBinPerArray == 70
MaxBinID == 443636
MinBinID == 0 - MaxBinID

MaxBinSpan == 150       \* bin ids explored on each side of 0

BinIDToBinArrayIndexTruncates(binID) == Quo(binID, MaxBinPerArray)

BinIDToBinArrayIndex(binID) ==
    LET quotient == Quo(binID, MaxBinPerArray)
        remainder == Rem(binID, MaxBinPerArray)
    IN  IF binID < 0 /\ remainder # 0 THEN quotient - 1 ELSE quotient

\* (lowerBinID, upperBinID); int32 arithmetic, which does not wrap for the
\* indices of bin ids in MinBinID..MaxBinID
GetBinArrayLowerUpperBinID(index) ==
    LET lowerBinID == index * MaxBinPerArray
        temp == lowerBinID + MaxBinPerArray
    IN  [lower |-> lowerBinID, upper |-> temp - 1]

BinIDs == ((0 - MaxBinSpan)..MaxBinSpan) \cup {MinBinID, MinBinID + 1, MaxBinID - 1, MaxBinID}

CallBinIDToBinArrayIndex(binID) ==
    /\ calc.op = "none"
    /\ LET idx == BinIDToBinArrayIndex(binID)
       IN  calc' = [op |-> "BinIDToBinArrayIndex", binID |-> binID, idx |-> idx,
                    bounds |-> GetBinArrayLowerUpperBinID(idx)]
    /\ UNCHANGED <<base, clmm, tx, proc, later>>

\* C16: the bin array index of bin id i is the floored quotient of i by 70,
\* and the bounds of that bin array enclose i and map back to the index
C16_BinArrayIndexFloors ==
    calc.op = "BinIDToBinArrayIndex" =>
        /\ MaxBinPerArray * calc.idx <= calc.binID
        /\ calc.binID < MaxBinPerArray * calc.idx + MaxBinPerArray
        /\ calc.bounds.lower <= calc.binID /\ calc.binID <= calc.bounds.upper
        /\ BinIDToBinArrayIndex(calc.bounds.lower) = calc.idx
        /\ BinIDToBinArrayIndex(calc.bounds.upper) = calc.idx

\* bin ids -1 and -70 are both in bin array -1
C16_Witness ==
    /\ calc.op = "BinIDToBinArrayIndex"
    /\ calc.binID = -70 /\ calc.idx = -1
    /\ calc.bounds = [lower |-> -70, upper |-> -1]

\* uint128 values are modelled with two words of ScaleOffset bits
ScaleOffset == U64Resolution
BasisPointMax == 10000
One == Lsh(1, ScaleOffset)
Hi(x) == x \div Pow2(ScaleOffset)

PriceOk(v) == [kind |-> "ok", amt |-> v, msg |-> ""]
PriceErr(msg) == [kind |-> "err", amt |-> 0, msg |-> msg]
PricePanic == [kind |-> "panic", amt |-> 0, msg |-> "overflow"]

RECURSIVE PowLoop(_, _, _)
\* the loop of Pow: uint128.Mul panics when the product needs a third word
PowLoop(result, current, exp) ==
    IF exp = 0 THEN PriceOk(result)
    ELSE IF exp % 2 = 1 /\ Hi(result) > 0 /\ Hi(current) > 0
         THEN PriceErr("multiplication overflow")
    ELSE LET r == IF exp % 2 = 1 THEN result * current ELSE result
             e == exp \div 2
         IN  IF Hi(Hi(r)) > 0 THEN PricePanic
             ELSE IF e > 0 /\ Hi(current) > 0 THEN PriceErr("square overflow")
             ELSE PowLoop(r, IF e > 0 THEN current * current ELSE current, e)

Pow(b, power) ==
    IF power = 0 THEN PriceOk(One)
    ELSE LET looped == PowLoop(One, b, Abs(power))
         IN  IF looped.kind # "ok" THEN looped
             ELSE IF power < 0 THEN PriceErr("negative power not implemented")
             ELSE looped

GetPriceFromID(activeID, binStep) ==
    LET shiftedBps == Lsh(binStep, ScaleOffset)
        bps == shiftedBps \div BasisPointMax
        result == Pow(One + bps, activeID)
    IN  IF BasisPointMax = 0 THEN PriceErr("division by zero")
        ELSE IF result.kind = "err" THEN PriceErr("power calculation error")
        ELSE result

BinSteps == {1, 25, 100}

CallGetPriceFromID(activeID, binStep) ==
    /\ calc.op = "none"
    /\ activeID + 1 \in BinIDs
    /\ calc' = [op |-> "GetPriceFromID", id |-> activeID, binStep |-> binStep,
                price |-> GetPriceFromID(activeID, binStep),
                next |-> GetPriceFromID(activeID + 1, binStep)]
    /\ UNCHANGED <<base, clmm, tx, proc, later>>

\* C17: for a bin step >= 1 and valid bin ids id and id + 1, GetPriceFromID
\* succeeds on both and the price of id + 1 is strictly the larger
C17_BinPriceMonotone ==
    calc.op = "GetPriceFromID" =>
        /\ calc.price.kind = "ok" /\ calc.next.kind = "ok"
        /\ calc.next.amt > calc.price.amt

----------------------------------------------------------------------------
(* Orca Whirlpool: the three tick arrays of a swap *)

\* solana.PublicKey{}
ZeroPublicKey == <<>>

DeriveWhirlpoolTickArrayPDA(whirlpoolPubkey, startTickIndex) ==
    <<"tick_array", whirlpoolPubkey, startTickIndex>>

NoAddresses == [kind |-> "err", addrs |-> <<ZeroPublicKey, ZeroPublicKey, ZeroPublicKey>>]

\* the first slot's start index is taken at the current tick
DeriveNoShift(tickSpacing, aToB) == 0

DeriveShift(tickSpacing, aToB) == IF aToB THEN 0 ELSE tickSpacing

\* the loop runs i = 0, 1, 2 with offset i * d and stops at the first start
\* index that is refused; n is the number of addresses it has appended
DeriveMultipleWhirlpoolTickArrayPDAs(whirlpoolPubkey, currentTick, tickSpacing, aToB) ==
    LET shift == DeriveShift(tickSpacing, aToB)
        d == IF aToB THEN -1 ELSE 1
        startIndex(i) == getOfficialTickArrayStartIndex(currentTick + shift, tickSpacing, i * d)
        n == IF startIndex(0).kind # "ok" THEN 0
             ELSE IF startIndex(1).kind # "ok" THEN 1
             ELSE IF startIndex(2).kind # "ok" THEN 2
             ELSE 3
    IN  IF n = 0 THEN NoAddresses
        ELSE [kind |-> "ok",
              addrs |-> [i \in 1..3 |->
                           IF i <= n
                           THEN DeriveWhirlpoolTickArrayPDA(whirlpoolPubkey, startIndex(i - 1).amt)
                           ELSE ZeroPublicKey]]

\* what GetMultipleAccounts answers for an address and what Decode makes of
\* it: no account, data that does not decode, or a tick array with its
\* start index and whether one of its ticks has liquidity_net < -1e12
AccountKinds == {"missing", "undecodable", "normal", "abnormal"}

NilResult == [kind |-> "missing", StartTickIndex |-> 0, abnormal |-> FALSE]

Undecodable == [kind |-> "undecodable", StartTickIndex |-> 0, abnormal |-> FALSE]

FetchTickArray(accounts, addr) ==
    IF accounts[addr] = "missing" THEN NilResult
    ELSE IF accounts[addr] = "undecodable" \/ addr = ZeroPublicKey THEN Undecodable
    ELSE [kind |-> "array", StartTickIndex |-> addr[3], abnormal |-> accounts[addr] = "abnormal"]

\* the error of validateTickArraySequence, "" for nil
validateTickArraySequence(pool, accounts, aToB) ==
    LET derived == DeriveMultipleWhirlpoolTickArrayPDAs(pool.PoolId, pool.tickCurrentIndex, pool.tickSpacing, aToB)
        present == [i \in 1..3 |-> FetchTickArray(accounts, derived.addrs[i])]
        stepTicks == pool.tickSpacing * TICK_ARRAY_SIZE
        dir == IF aToB THEN -1 ELSE 1
        baseIdx0 == present[1].StartTickIndex
        baseIdx1 == IF present[2].kind = "array" THEN baseIdx0 + dir * stepTicks ELSE baseIdx0
    IN  IF derived.kind = "err" THEN "failed to calculate startIndex for tick_array0"
        ELSE IF present[1].kind = "missing" THEN "primary tick array missing"
        ELSE IF \E i \in 1..3 : present[i].kind = "undecodable" THEN "failed to decode tick array"
        ELSE IF present[2].kind = "array" /\ present[2].StartTickIndex # baseIdx0 + dir * stepTicks
             THEN "tick array 1 not consecutive"
        ELSE IF present[3].kind = "array" /\ present[3].StartTickIndex # baseIdx1 + dir * stepTicks
             THEN "tick array 2 not consecutive"
        ELSE ""

isCriticalTickArrayError(err) ==
    err \in {"primary tick array missing", "failed to decode tick array"}

\* the accounts in which every derived address holds the tick array of its
\* start index, and the zero address holds zeroAccount
DerivedAccounts(derived, zeroAccount) ==
    [addr \in {derived.addrs[i] : i \in 1..3} \cup {ZeroPublicKey} |->
        IF addr = ZeroPublicKey THEN zeroAccount ELSE "normal"]

CallDeriveTickArrays(currentTick, tickSpacing, aToB, zeroAccount) ==
    /\ calc.op = "none"
    /\ LET derived == DeriveMultipleWhirlpoolTickArrayPDAs("pool", currentTick, tickSpacing, aToB)
           pool == [PoolId |-> "pool", tickCurrentIndex |-> currentTick, tickSpacing |-> tickSpacing]
       IN  calc' = [op |-> "DeriveTickArrays", tick |-> currentTick, tickSpacing |-> tickSpacing,
                    aToB |-> aToB, zeroAccount |-> zeroAccount, derived |-> derived,
                    err |-> validateTickArraySequence(pool, DerivedAccounts(derived, zeroAccount), aToB)]
    /\ UNCHANGED <<base, clmm, tx, proc, later>>

----------------------------------------------------------------------------
(* Meteora DLMM: the amounts of one bin *)

\* a uint64 is modelled with one word of ScaleOffset bits
WordMax == Pow2(ScaleOffset) - 1

\* int64(x) of a uint64 x: the same bits read as a signed word
Int64OfUint64(x) == IF x >= Pow2(ScaleOffset - 1) THEN x - Pow2(ScaleOffset) ELSE x

GetMaxAmountOut(bin, swapForY) == IF swapForY THEN bin.amountY ELSE bin.amountX

GetAmountOut(bin, amountIn, price, swapForY) ==
    IF swapForY
    THEN MulShr(price, Int64OfUint64(amountIn), ScaleOffset, "RoundingDown")
    ELSE ShlDiv(Int64OfUint64(amountIn), price, ScaleOffset, "RoundingDown")

GetMaxAmountIn(bin, price, swapForY) ==
    IF swapForY
    THEN ShlDiv(Int64OfUint64(bin.amountY), price, ScaleOffset, "RoundingUp")
    ELSE MulShr(Int64OfUint64(bin.amountX), price, ScaleOffset, "RoundingUp")

BinAmounts == {0, 1, 5, Pow2(ScaleOffset - 1) - 1, Pow2(ScaleOffset - 1), WordMax}
BinPrices == {1, 3, Pow2(ScaleOffset - 1), One, One + 5, 3 * One, Pow2(2 * ScaleOffset) - 1}
Bins == [amountX : BinAmounts, amountY : BinAmounts]

CallBinAmounts(bin, amountIn, price, swapForY) ==
    /\ calc.op = "none"
    /\ calc' = [op |-> "BinAmounts", bin |-> bin, amountIn |-> amountIn, price |-> price,
                swapForY |-> swapForY,
                maxAmountOut |-> GetMaxAmountOut(bin, swapForY),
                amountOut |-> GetAmountOut(bin, amountIn, price, swapForY),
                maxAmountIn |-> GetMaxAmountIn(bin, price, swapForY)]
    /\ UNCHANGED <<base, clmm, tx, proc, later>>

\* the quotient rounded up, of natural numbers
CeilDiv(a, b) == (a + b - 1) \div b

\* C26: an input below GetMaxAmountIn draws an output between 0 and the
\* bin's reserve of the output token, and GetMaxAmountIn is the rounded-up
\* input that buys the whole reserve
C26_BinOutputWithinReserve ==
    calc.op = "BinAmounts" =>
        /\ calc.maxAmountIn =
               Ok(IF calc.swapForY THEN CeilDiv(calc.bin.amountY * One, calc.price)
                  ELSE CeilDiv(calc.bin.amountX * calc.price, One))
        /\ calc.amountIn < calc.maxAmountIn.amt =>
               /\ calc.amountOut.kind = "ok"
               /\ 0 <= calc.amountOut.amt
               /\ calc.amountOut.amt <= calc.maxAmountOut

----------------------------------------------------------------------------
(* Meteora DLMM: the bin array bitmap extension *)

\* A big.Int that holds a bitmap is modelled by the set of its one-bits, a
\* limb by the set of its one-bits within the limb.
LimbBits == 2                       \* bits of a limb (a uint64 in the source)
LimbsPerBitmap == 8
BinArrayBitmapSize == LimbsPerBitmap * LimbBits
ExtensionBinArrayBitmapSize == 2    \* bitmaps on each side (12 in the source)

BigLsh(n, k) == {b + k : b \in n}
BigRsh(n, k) == {b - k : b \in {c \in n : c >= k}}
BitLen(n) == IF n = {} THEN 0 ELSE (CHOOSE b \in n : \A c \in n : c <= b) + 1

\* the loop runs i = 0 .. 7: shift the result by one limb, then or arr[i]
RECURSIVE ArrayToBigIntLoop(_, _, _)
ArrayToBigIntLoop(arr, i, result) ==
    IF i > Len(arr) THEN result
    ELSE ArrayToBigIntLoop(arr, i + 1, BigLsh(result, LimbBits) \cup arr[i])

ArrayToBigInt(arr) == ArrayToBigIntLoop(arr, 1, {})

\* the loop runs i = len - 1 .. 0
RECURSIVE FromLimbsLoop(_, _, _)
FromLimbsLoop(limbs, i, result) ==
    IF i < 1 THEN result
    ELSE FromLimbsLoop(limbs, i - 1, BigLsh(result, LimbBits) \cup limbs[i])

FromLimbs(limbs) == FromLimbsLoop(limbs, Len(limbs), {})

GetBitmapOffset(binArrayIndex) ==
    IF binArrayIndex > 0 THEN Quo(binArrayIndex, BinArrayBitmapSize) - 1
    ELSE Quo(-(binArrayIndex + 1), BinArrayBitmapSize) - 1

BinArrayOffsetInBitmap(binArrayIndex) ==
    IF binArrayIndex > 0 THEN Rem(binArrayIndex, BinArrayBitmapSize)
    ELSE Rem(-(binArrayIndex + 1), BinArrayBitmapSize)

CountLeadingZeros(n) == IF n = {} THEN BinArrayBitmapSize ELSE BinArrayBitmapSize - BitLen(n)

CountTrailingZeros(n) ==
    IF n = {} THEN BinArrayBitmapSize
    ELSE LET low == CHOOSE b \in n : \A c \in n : b <= c
         IN  IF low >= BinArrayBitmapSize THEN BinArrayBitmapSize ELSE low

ToBinArrayIndex(offset, binArrayOffset, isPositive) ==
    IF isPositive THEN (offset + 1) * BinArrayBitmapSize + binArrayOffset
    ELSE -((offset + 1) * BinArrayBitmapSize + binArrayOffset) - 1

ExtensionBitmapRange ==
    [min |-> -BinArrayBitmapSize * (ExtensionBinArrayBitmapSize + 1),
     max |-> BinArrayBitmapSize * (ExtensionBinArrayBitmapSize + 1) - 1]

BinArrayFound(idx) == [kind |-> "found", idx |-> idx]
BinArrayNone(idx) == [kind |-> "none", idx |-> idx]
IndexPanic == [kind |-> "panic", idx |-> 0]
NotFoundErr == [kind |-> "err", idx |-> 0]

\* extension.PositiveBinArrayBitmap[i] or extension.NegativeBinArrayBitmap[i]
BitmapAt(extension, isPositive, i) ==
    IF isPositive THEN extension.PositiveBinArrayBitmap[i + 1]
    ELSE extension.NegativeBinArrayBitmap[i + 1]

Indexable(i) == 0 <= i /\ i < ExtensionBinArrayBitmapSize

Bit(extension, binArrayIndex) ==
    LET offset == GetBitmapOffset(binArrayIndex)
    IN  IF ~Indexable(offset) THEN IndexPanic
        ELSE IF BinArrayOffsetInBitmap(binArrayIndex)
                    \in ArrayToBigInt(BitmapAt(extension, binArrayIndex >= 0, offset))
             THEN BinArrayFound(binArrayIndex)
             ELSE BinArrayNone(0)

\* the bitmap of iteration i as the loop body tests it: shifted in the
\* first iteration (i = offset), whole in the later ones
Shifted(extension, isPositive, up, offset, binArrayOffset, i) ==
    LET binArrayBitmap == ArrayToBigInt(BitmapAt(extension, isPositive, i))
    IN  IF i # offset THEN binArrayBitmap
        ELSE IF up THEN BigRsh(binArrayBitmap, binArrayOffset)
        ELSE BigLsh(binArrayBitmap, BinArrayBitmapSize - binArrayOffset - 1)

\* the four loops of IterBitmap: up runs i = offset, offset + 1, .. and
\* counts trailing zeros, down runs i = offset, offset - 1, .. 0 and counts
\* leading zeros; the first i whose bitmap is not zero returns
IterBitmap(extension, startIndex, endIndex) ==
    LET offset == GetBitmapOffset(startIndex)
        binArrayOffset == BinArrayOffsetInBitmap(startIndex)
        isPositive == ~(startIndex < 0)
        up == IF startIndex < 0 THEN ~(startIndex < endIndex) ELSE startIndex < endIndex
        visited == IF up THEN {i \in offset .. ExtensionBinArrayBitmapSize - 1 : TRUE}
                   ELSE {i \in 0 .. offset : TRUE}
        hit(i) == Indexable(i) /\ Shifted(extension, isPositive, up, offset, binArrayOffset, i) # {}
        before(i, j) == IF up THEN i < j ELSE i > j
        stops == {i \in visited : (~Indexable(i) \/ hit(i)) /\ \A j \in visited : before(j, i) => (Indexable(j) /\ ~hit(j))}
    IN  IF startIndex = endIndex THEN Bit(extension, startIndex)
        ELSE IF stops = {} THEN BinArrayNone(0)
        ELSE LET i == CHOOSE k \in stops : TRUE
                 binArrayBitmap == Shifted(extension, isPositive, up, offset, binArrayOffset, i)
                 binArrayOffsetInBitmap ==
                     IF up THEN IF i = offset THEN binArrayOffset + CountTrailingZeros(binArrayBitmap)
                                ELSE CountTrailingZeros(binArrayBitmap)
                     ELSE IF i = offset THEN binArrayOffset - CountLeadingZeros(binArrayBitmap)
                          ELSE BinArrayBitmapSize - CountLeadingZeros(binArrayBitmap) - 1
             IN  IF ~Indexable(i) THEN IndexPanic
                 ELSE BinArrayFound(ToBinArrayIndex(i, binArrayOffsetInBitmap, isPositive))

NextBinArrayIndexWithLiquidity(extension, swapForY, startIndex) ==
    LET endIndex ==
            IF startIndex > 0
            THEN IF swapForY THEN BinArrayBitmapSize ELSE ExtensionBitmapRange.max
            ELSE IF swapForY THEN ExtensionBitmapRange.min ELSE -BinArrayBitmapSize - 1
        value == IterBitmap(extension, startIndex, endIndex)
    IN  IF value.kind # "none" THEN value
        ELSE IF startIndex > 0
             THEN IF swapForY THEN BinArrayNone(BinArrayBitmapSize - 1) ELSE NotFoundErr
             ELSE IF swapForY THEN NotFoundErr ELSE BinArrayNone(-BinArrayBitmapSize)

NoLimb == {}
ZeroBitmap == [i \in 1 .. LimbsPerBitmap |-> NoLimb]

\* bitmaps with a bit in the first limb, in the last limb, and in two limbs
\* between
Bitmaps ==
    {ZeroBitmap,
     [ZeroBitmap EXCEPT ![1] = {0}],
     [ZeroBitmap EXCEPT ![LimbsPerBitmap] = {LimbBits - 1}],
     [ZeroBitmap EXCEPT ![3] = {1}, ![6] = {0}]}

Extensions ==
    [PositiveBinArrayBitmap : [1 .. ExtensionBinArrayBitmapSize -> Bitmaps],
     NegativeBinArrayBitmap : [1 .. ExtensionBinArrayBitmapSize -> Bitmaps]]

\* bin array indices from one bitmap below the extension to one above it
ExtensionStarts ==
    (ExtensionBitmapRange.min - BinArrayBitmapSize) .. (ExtensionBitmapRange.max + BinArrayBitmapSize)

CallNextBinArrayIndex(extension, swapForY, startIndex) ==
    /\ calc.op = "none"
    /\ calc' = [op |-> "NextBinArrayIndexWithLiquidity", extension |-> extension,
                swapForY |-> swapForY, startIndex |-> startIndex,
                out |-> NextBinArrayIndexWithLiquidity(extension, swapForY, startIndex)]
    /\ UNCHANGED <<base, clmm, tx, proc, later>>

CallArrayToBigInt(arr) ==
    /\ calc.op = "none"
    /\ calc' = [op |-> "ArrayToBigInt", arr |-> arr, out |-> ArrayToBigInt(arr),
                fromLimbs |-> FromLimbs(arr)]
    /\ UNCHANGED <<base, clmm, tx, proc, later>>

\* the bin array offsets whose bit is set on chain: bit b of limb l is
\* offset l * LimbBits + b (limb 0 holds the lowest offsets)
OffsetsSet(arr) == UNION {{(l - 1) * LimbBits + b : b \in arr[l]} : l \in 1 .. LimbsPerBitmap}

InExtensionOnly(binArrayIndex) ==
    /\ ExtensionBitmapRange.min <= binArrayIndex /\ binArrayIndex <= ExtensionBitmapRange.max
    /\ (binArrayIndex > BinArrayBitmapSize - 1 \/ binArrayIndex < -BinArrayBitmapSize)

\* C27: from a start index outside the default range and inside the
\* extension range the search reads only the extension's bitmaps, and an
\* index it reports as found has its bit set, lies on the travel side of
\* the start, and has no set bit strictly between the start and it
C27_NextBinArrayFound ==
    (calc.op = "NextBinArrayIndexWithLiquidity" /\ InExtensionOnly(calc.startIndex)) =>
        /\ calc.out.kind # "panic"
        /\ calc.out.kind = "found" =>
               /\ Bit(calc.extension, calc.out.idx).kind = "found"
               /\ IF calc.swapForY THEN calc.out.idx <= calc.startIndex
                  ELSE calc.out.idx >= calc.startIndex
               /\ \A j \in ExtensionStarts :
                      (/\ InExtensionOnly(j)
                       /\ \/ (calc.out.idx < j /\ j < calc.startIndex)
                          \/ (calc.startIndex < j /\ j < calc.out.idx))
                          => Bit(calc.extension, j).kind # "found"

\* C28: ArrayToBigInt reads the limbs in little-endian order: it yields the
\* integer of FromLimbs, whose bit k is the bit of bin array offset k
C28_ArrayToBigIntLittleEndian ==
    calc.op = "ArrayToBigInt" =>
        /\ calc.out = calc.fromLimbs
        /\ calc.out = OffsetsSet(calc.arr)

----------------------------------------------------------------------------
(* The helpers, called directly on bounded arguments *)

\* the caller has taken the result and makes its next call
CalcReturn ==
    /\ calc.op # "none"
    /\ calc' = NoCalc
    /\ UNCHANGED <<base, clmm, tx, proc, later>>

NextCalc ==
    \/ CalcReturn
    \/ \E n \in DataLens, spare \in SpareCaps : CallClmmDecode(n, spare)
    \/ \E n \in DataLens, spare \in SpareCaps : CallWhirlpoolDecode(n, spare)
    \/ \E x \in KernelOperands, y \in KernelOperands, d \in KernelDivisors, r \in Roundings :
         CallMulDiv(x, y, d, r)
    \/ \E x \in KernelOperands, y \in KernelOperands, o \in KernelOffsets, r \in Roundings :
         CallMulShr(x, y, o, r)
    \/ \E x \in KernelOperands, y \in KernelDivisors, o \in KernelOffsets, r \in Roundings :
         CallShlDiv(x, y, o, r)
    \/ \E a \in KernelOperands, b \in KernelOperands, d \in KernelDivisors :
         CallWhirlpoolMulDivFloor(a, b, d)
    \/ \E a \in KernelOperands, b \in KernelOperands, d \in KernelDivisors :
         CallWhirlpoolMulDivCeil(a, b, d)
    \/ \E t \in Ticks, s \in TickSpacings : CallTickArrayStartIndex(t, s)
    \/ \E i \in BinIDs : CallBinIDToBinArrayIndex(i)
    \/ \E i \in BinIDs, s \in BinSteps : CallGetPriceFromID(i, s)
    \/ \E bin \in Bins, a \in BinAmounts, price \in BinPrices, swapForY \in BOOLEAN :
         CallBinAmounts(bin, a, price, swapForY)
    \/ \E t \in Ticks, sp \in TickSpacings, aToB \in BOOLEAN, z \in {"missing", "undecodable"} :
         CallDeriveTickArrays(t, sp, aToB, z)

SpecCalc == Init /\ [][NextCalc]_vars

\* the bitmap helpers, called directly on bounded extensions
NextBitmap ==
    \/ CalcReturn
    \/ /\ calc.op = "none"
       /\ \E e \in Extensions, swapForY \in BOOLEAN, st \in ExtensionStarts :
            CallNextBinArrayIndex(e, swapForY, st)
    \/ \E arr \in Bitmaps : CallArrayToBigInt(arr)

SpecBitmap == Init /\ [][NextBitmap]_vars

----------------------------------------------------------------------------
(* Client.SendTx *)

Wallets == {"alice", "bob"}
Blockhashes == {"h1", "h2", "h3"}

\* the signer lists a caller passes
SignerLists == {<<>>, <<"alice">>, <<"bob">>, <<"alice", "bob">>, <<"bob", "alice">>}

\* an instruction list, by the wallets whose signature its accounts require
InstructionLists == {<<>>, <<"alice">>, <<"alice", "bob">>}

\* solana.Signature{}: the zero value
EmptySignature == <<>>

\* signTransaction: the signed transaction, or nothing when there is no
\* signer, no instruction (solana.NewTransaction) or a required signer for
\* which the callback finds no key (tx.Sign)
signTransaction(blockhash, signers, instrs) ==
    IF Len(signers) = 0 THEN [ok |-> FALSE, tx |-> <<>>]
    ELSE IF Len(instrs) = 0 THEN [ok |-> FALSE, tx |-> <<>>]
    ELSE LET payer == signers[1]
             required == {payer} \cup {instrs[k] : k \in 1..Len(instrs)}
             held == {signers[k] : k \in 1..Len(signers)}
         IN  IF required \subseteq held
             THEN [ok |-> TRUE, tx |-> <<"tx", blockhash, payer, instrs>>]
             ELSE [ok |-> FALSE, tx |-> <<>>]

\* the signature of a transaction the node accepted: its first signature
SignatureOf(transaction) == <<"sig">> \o Tail(transaction)

\* SendTx up to its RPC request
SendTxCall(blockhash, signers, insts, isSimulate) ==
    /\ ~tx.called
    /\ LET signed == signTransaction(blockhash, signers, insts)
       IN  tx' = [called |-> TRUE, blockhash |-> blockhash, signers |-> signers,
                  insts |-> insts, isSimulate |-> isSimulate, tx |-> signed.tx,
                  pc |-> IF signed.ok THEN "rpc" ELSE "returned",
                  sig |-> EmptySignature, err |-> ~signed.ok]
    /\ UNCHANGED <<base, clmm, calc, proc, later>>

\* SimulateTransaction or SendTransactionWithOpts answers
SendTxRpcAnswers ==
    /\ tx.called /\ tx.pc = "rpc"
    /\ \E rpcOk \in BOOLEAN :
         tx' = [tx EXCEPT
                  !.pc = "returned",
                  !.err = ~rpcOk,
                  !.sig = IF rpcOk /\ ~tx.isSimulate THEN SignatureOf(tx.tx)
                          ELSE EmptySignature]
    /\ UNCHANGED <<base, clmm, calc, proc, later>>

\* the caller has taken SendTx's result
SendTxDone ==
    /\ tx.called /\ tx.pc = "returned"
    /\ tx' = NoTx
    /\ UNCHANGED <<base, clmm, calc, proc, later>>

NextTx ==
    \/ \E h \in Blockhashes, sg \in SignerLists, ins \in InstructionLists, sim \in BOOLEAN :
         SendTxCall(h, sg, ins, sim)
    \/ SendTxRpcAnswers
    \/ SendTxDone

SpecTx == Init /\ [][NextTx]_vars

\* C19: a SendTx call that returns without error returns a non-empty
\* signature, simulated or not
C19_SuccessfulSendHasSignature ==
    (tx.called /\ tx.pc = "returned" /\ ~tx.err) => tx.sig # EmptySignature

----------------------------------------------------------------------------
(* utils.LoadEnv *)

\* the longest .env file
MaxLines == 3

\* the goroutines that call LoadEnv
NumGoroutines == 2

Goroutines == 1..NumGoroutines

EnvKeys == {"A", "B"}

\* a value is a sequence of characters; NUL is the zero byte
NUL == "\\0"
DoubleQuote == "\""
SingleQuote == "'"

Unset == [exists |-> FALSE, val |-> <<>>]
Var(val) == [exists |-> TRUE, val |-> val]

\* the lines a .env file is made of, after TrimSpace: a line the loop skips
\* (empty, a comment, or without "=") and an assignment
CommentLine == [kind |-> "skip", export |-> FALSE, key |-> "", raw |-> <<>>]
Assign(key, raw) == [kind |-> "kv", export |-> FALSE, key |-> key, raw |-> raw]
Export(key, raw) == [kind |-> "kv", export |-> TRUE, key |-> key, raw |-> raw]

FileLines == {CommentLine, Assign("A", <<"1">>), Assign("A", <<"1", NUL>>), Export("A", <<DoubleQuote, "2", DoubleQuote>>), Assign("B", <<SingleQuote, "1", SingleQuote>>)}

EnvFiles == UNION {[1..n -> FileLines] : n \in 0..MaxLines}

\* the environment the process starts with
InitialEnvs == [EnvKeys -> {Unset, Var(<<"0">>)}]

\* val[1 : len(val)-1] when val is wrapped in matching quotes
StripQuotes(val) ==
    IF /\ Len(val) >= 2
       /\ \/ val[1] = DoubleQuote /\ val[Len(val)] = DoubleQuote
          \/ val[1] = SingleQuote /\ val[Len(val)] = SingleQuote
    THEN SubSeq(val, 2, Len(val) - 1)
    ELSE val

\* one line of the scan loop up to the key and the value
ParseLine(line) ==
    IF line.kind = "kv"
    THEN [ok |-> TRUE, key |-> line.key, val |-> StripQuotes(line.raw)]
    ELSE [ok |-> FALSE, key |-> "", val |-> <<>>]

\* os.Setenv fails with EINVAL on an empty key and on a NUL byte in the value
SetenvFails(key, val) == key = "" \/ \E k \in 1..Len(val) : val[k] = NUL

Setenv(env, key, val) ==
    IF SetenvFails(key, val) THEN env ELSE [env EXCEPT ![key] = Var(val)]

LookupEnv(env, key) == key \in DOMAIN env /\ env[key].exists

\* the mutant of LookupThenSetenv: the value is set whether or not it exists
SetenvAlways(env, key, val) ==
    Setenv(env, key, val)

\* if _, exists := os.LookupEnv(key); !exists { _ = os.Setenv(key, val) }
LookupThenSetenv(env, key, val) ==
    IF LookupEnv(env, key) THEN env ELSE Setenv(env, key, val)

NoOnce == [done |-> FALSE, m |-> 0]

\* LoadEnv is called: loadOnce.Do loads done
LoadEnvCall(g) ==
    /\ proc.set /\ proc.pc[g] = "idle"
    /\ proc' = [proc EXCEPT !.pc[g] = IF proc.once.done THEN "return" ELSE "lock"]
    /\ UNCHANGED <<base, clmm, calc, tx, later>>

\* doSlow: o.m.Lock()
OnceLock(g) ==
    /\ proc.set /\ proc.pc[g] = "lock" /\ proc.once.m = 0
    /\ proc' = [proc EXCEPT !.once.m = g, !.pc[g] = "locked"]
    /\ UNCHANGED <<base, clmm, calc, tx, later>>

\* doSlow: if o.done == 0 { f() }, otherwise unlock and return
OnceRecheck(g) ==
    /\ proc.set /\ proc.pc[g] = "locked"
    /\ proc' = IF proc.once.done
               THEN [proc EXCEPT !.once.m = 0, !.pc[g] = "return"]
               ELSE [proc EXCEPT !.pc[g] = "locate"]
    /\ UNCHANGED <<base, clmm, calc, tx, later>>

\* Getwd and the walk up to three directories for a .env that is a file
LoadEnvLocate(g) ==
    /\ proc.set /\ proc.pc[g] = "locate"
    /\ \E found \in BOOLEAN :
         proc' = [proc EXCEPT !.pc[g] = IF found THEN "open" ELSE "finish"]
    /\ UNCHANGED <<base, clmm, calc, tx, later>>

\* os.Open and bufio.NewScanner
LoadEnvOpen(g) ==
    /\ proc.set /\ proc.pc[g] = "open"
    /\ \E opened \in BOOLEAN :
         proc' = IF opened
                 THEN [proc EXCEPT !.pc[g] = "scan", !.i = 1, !.parses = @ + 1]
                 ELSE [proc EXCEPT !.pc[g] = "finish"]
    /\ UNCHANGED <<base, clmm, calc, tx, later>>

\* one iteration of the scan loop
LoadEnvScanLine(g) ==
    /\ proc.set /\ proc.pc[g] = "scan" /\ proc.i <= Len(proc.file)
    /\ LET parsed == ParseLine(proc.file[proc.i])
       IN  proc' = [proc EXCEPT
                      !.i = @ + 1,
                      !.env = IF parsed.ok THEN LookupThenSetenv(@, parsed.key, parsed.val) ELSE @]
    /\ UNCHANGED <<base, clmm, calc, tx, later>>

\* scanner.Scan() returns false
LoadEnvScanEnd(g) ==
    /\ proc.set /\ proc.pc[g] = "scan" /\ proc.i > Len(proc.file)
    /\ proc' = [proc EXCEPT !.pc[g] = "finish"]
    /\ UNCHANGED <<base, clmm, calc, tx, later>>

\* f returns: done is stored, the mutex is released
OnceFinish(g) ==
    /\ proc.set /\ proc.pc[g] = "finish"
    /\ proc' = [proc EXCEPT !.once = [done |-> TRUE, m |-> 0], !.pc[g] = "return"]
    /\ UNCHANGED <<base, clmm, calc, tx, later>>

\* LoadEnv returns to its caller
LoadEnvReturn(g) ==
    /\ proc.set /\ proc.pc[g] = "return"
    /\ proc' = [proc EXCEPT !.pc[g] = "idle", !.returned[g] = TRUE]
    /\ UNCHANGED <<base, clmm, calc, tx, later>>

NextEnv ==
    \E g \in Goroutines :
        \/ LoadEnvCall(g)
        \/ OnceLock(g)
        \/ OnceRecheck(g)
        \/ LoadEnvLocate(g)
        \/ LoadEnvOpen(g)
        \/ LoadEnvScanLine(g)
        \/ LoadEnvScanEnd(g)
        \/ OnceFinish(g)
        \/ LoadEnvReturn(g)

InitEnv ==
    /\ pools = <<>> /\ lastQuery = NoQuery /\ gb = IdleCall /\ call = NoCall
    /\ step = NoStep /\ wq = NoSnapshot
    /\ clmm = NoClmm /\ calc = NoCalc /\ tx = NoTx
    /\ RestIdle
    /\ \E env \in InitialEnvs, file \in EnvFiles :
         proc = [set |-> TRUE, env0 |-> env, env |-> env, file |-> file,
                 once |-> NoOnce, pc |-> [g \in Goroutines |-> "idle"],
                 returned |-> [g \in Goroutines |-> FALSE], i |-> 0, parses |-> 0]

SpecEnv == InitEnv /\ [][NextEnv]_vars

\* the lines of the file that assign key
Occurrences(key) == {k \in 1..Len(proc.file) : ParseLine(proc.file[k]).ok /\ ParseLine(proc.file[k]).key = key}

\* the occurrences os.Setenv accepts
Accepted(key) == {k \in Occurrences(key) : ~SetenvFails(key, ParseLine(proc.file[k]).val)}

First(S) == CHOOSE k \in S : \A j \in S : k <= j

ParsedAtMostOnce == proc.set => proc.parses <= 1

ExistingKept == proc.set => \A key \in EnvKeys : proc.env0[key].exists => proc.env[key] = proc.env0[key]

\* the scan loop is past line k
Scanned(k) == proc.parses >= 1 /\ proc.i > k

\* C20: across sequential and concurrent LoadEnv calls the file is parsed at
\* most once, no variable that exists already is overwritten, and a key that
\* occurs several times holds the value of its first occurrence that
\* os.Setenv accepts (an occurrence with a NUL byte in its value is dropped)
C20_LoadEnvOnceFirstAcceptedWins ==
    /\ ParsedAtMostOnce
    /\ ExistingKept
    /\ proc.set => \A key \in EnvKeys :
         ~proc.env0[key].exists =>
           /\ proc.env[key].exists =>
                /\ Accepted(key) # {}
                /\ proc.env[key].val = ParseLine(proc.file[First(Accepted(key))]).val
           /\ (Accepted(key) # {} /\ Scanned(First(Accepted(key)))) => proc.env[key].exists

\* C20 as stated: a key that occurs several times is set from its first
\* occurrence
C20_FirstOccurrenceWins ==
    /\ ParsedAtMostOnce
    /\ ExistingKept
    /\ proc.set => \A key \in EnvKeys :
         (~proc.env0[key].exists /\ proc.env[key].exists /\ Cardinality(Occurrences(key)) > 1)
           => proc.env[key].val = ParseLine(proc.file[First(Occurrences(key))]).val

\* every goroutine has returned from LoadEnv, one of them parsed a file that
\* assigns a key twice with different values, and a variable existed before
C20_Witness ==
    /\ proc.set /\ proc.parses = 1 /\ proc.once.done
    /\ \A g \in Goroutines : proc.returned[g]
    /\ \E key \in EnvKeys :
         /\ ~proc.env0[key].exists
         /\ Cardinality(Accepted(key)) > 1
         /\ proc.env[key].val = ParseLine(proc.file[First(Accepted(key))]).val
         /\ \E k \in Accepted(key) : ParseLine(proc.file[k]).val # proc.env[key].val
    /\ \E key \in EnvKeys : proc.env0[key].exists /\ Occurrences(key) # {}

----------------------------------------------------------------------------------------------------------------------------------------
(* CLMMPool.Quote: the order of its steps *)

----------------
(* CLMMPool.swapCompute *)

\* the reduced tick range: ticks -ClmmMaxTick..ClmmMaxTick stand for
\* MIN_TICK..MAX_TICK
ClmmMaxTick == 180

ClmmMinTick == 0 - ClmmMaxTick

\* the iteration cap of the loop
MaxLoop == 100

RAYDIUM_TICK_ARRAY_SIZE == 60

\* all pools of the model have tick spacing 1
getTickCount(tickSpacing) == tickSpacing * RAYDIUM_TICK_ARRAY_SIZE

\* the reduced tick table: one unit of sqrt price per tick around 1.0
getSqrtPriceX64FromTick(tick) == One + tick

getTickFromSqrtPriceX64(sqrtPriceX64) == sqrtPriceX64 - One

\* MIN_SQRT_PRICE_X64 and MAX_SQRT_PRICE_X64 are the prices of MIN_TICK and
\* MAX_TICK
ClmmMinSqrtPrice == getSqrtPriceX64FromTick(ClmmMinTick)

ClmmMaxSqrtPrice == getSqrtPriceX64FromTick(ClmmMaxTick)

\* the start index of the tick array that holds tick
ClmmArrayStart(tick) == tick - (tick % RAYDIUM_TICK_ARRAY_SIZE)

\* the ticks of the model's pools: a function from the initialized ticks to
\* their LiquidityNet
DenseTicks == [k \in (0 - 2 * RAYDIUM_TICK_ARRAY_SIZE)..(2 * RAYDIUM_TICK_ARRAY_SIZE - 1) |-> 0]
SparseTicks == [k \in {-70, -10, 20, 90} |-> IF k < 0 THEN 64 ELSE -64]
NoTicks == [k \in {} |-> 0]

TicksOf(name) ==
    CASE name = "dense" -> DenseTicks
      [] name = "sparse" -> SparseTicks
      [] OTHER -> NoTicks

\* the initialized ticks of a pool in the array at start
InitializedIn(p, start) == {k \in DOMAIN TicksOf(p.ticks) : ClmmArrayStart(k) = start}

NoTick == [nil |-> TRUE, Tick |-> 0, LiquidityNet |-> 0]

TickState(p, k) == [nil |-> FALSE, Tick |-> k, LiquidityNet |-> TicksOf(p.ticks)[k]]

SetMax(S) == CHOOSE k \in S : \A j \in S : j <= k

SetMin(S) == CHOOSE k \in S : \A j \in S : k <= j

\* the next initialized tick of the current array in the direction of the
\* swap; t lets a one-for-zero search start on the tick itself
getNextInitTick(p, start, tick, zeroForOne, t) ==
    LET S == IF zeroForOne
             THEN {k \in InitializedIn(p, start) : k <= tick}
             ELSE {k \in InitializedIn(p, start) : k > tick \/ (t /\ k = tick)}
    IN  IF S = {} THEN NoTick
        ELSE TickState(p, IF zeroForOne THEN SetMax(S) ELSE SetMin(S))

\* the next tick array with an initialized tick beyond the current one
nextInitializedTickArrayStartIndexUtils(p, start, zeroForOne) ==
    LET S == {ClmmArrayStart(k) : k \in DOMAIN TicksOf(p.ticks)}
        B == IF zeroForOne THEN {a \in S : a < start} ELSE {a \in S : a > start}
    IN  IF B = {} THEN [isExist |-> FALSE, start |-> 0]
        ELSE [isExist |-> TRUE, start |-> IF zeroForOne THEN SetMax(B) ELSE SetMin(B)]

\* the first initialized tick of an array met in the direction of the swap
firstInitializedTick(p, start, zeroForOne) ==
    LET S == InitializedIn(p, start)
    IN  TickState(p, IF zeroForOne THEN SetMax(S) ELSE SetMin(S))

\* one swap step by the canonical formulas
swapStepCompute(sqrtPriceX64Current, sqrtPriceX64Target, liquidity, amountRemaining, feeRate, zeroForOne) ==
    whirlpoolSwapStepComputePrecise(sqrtPriceX64Current, sqrtPriceX64Target, liquidity, amountRemaining, feeRate, zeroForOne)

\* if baseInput { MIN_SQRT_PRICE_X64 + 1 } else { MAX_SQRT_PRICE_X64 - 1 }
sqrtPriceLimitX64(baseInput, zeroForOne) ==
    IF baseInput THEN ClmmMinSqrtPrice + 1 ELSE ClmmMaxSqrtPrice - 1

\* the target price of one step
targetPrice(zeroForOne, sqrtPriceNextX64, limit) ==
    IF \/ zeroForOne /\ sqrtPriceNextX64 < limit
       \/ ~zeroForOne /\ sqrtPriceNextX64 > limit
    THEN limit
    ELSE sqrtPriceNextX64

\* the mutant of LoopExceeded: one more iteration is allowed
LoopExceededLate(loop) ==
    loop > MaxLoop + 1

\* loop++; if loop > 100 { return error }
LoopExceeded(loop) ==
    loop > MaxLoop

SwapPools ==
    {[TickCurrent |-> c, SqrtPriceX64 |-> getSqrtPriceX64FromTick(c), Liquidity |-> L, FeeRate |-> f, TickSpacing |-> 1, ticks |-> tk] :
        c \in {0, 5}, L \in {0, 256}, f \in {0, 3000}, tk \in {"dense", "sparse", "none"}}

SwapAmounts == {0, 1, 40, 95, 100, 105, 110, 115, 120, 300, -1, -30}

\* the array getFirstInitializedTickArray finds: the current one when it has
\* an initialized tick, else the next one in the direction of the swap
FirstArrays(p, zeroForOne) ==
    LET cur == ClmmArrayStart(p.TickCurrent)
        nxt == nextInitializedTickArrayStartIndexUtils(p, cur, zeroForOne)
    IN  IF InitializedIn(p, cur) # {} THEN {cur}
        ELSE IF nxt.isExist THEN {nxt.start} ELSE {}

\* swapCompute up to its loop
SwapComputeCall(p, zeroForOne, amountSpecified, lastSavedTickArrayStartIndex) ==
    /\ ~sc.set
    /\ LET baseInput == amountSpecified > 0
           count == getTickCount(p.TickSpacing)
           tick == IF p.TickCurrent > lastSavedTickArrayStartIndex
                   THEN IF lastSavedTickArrayStartIndex + count - 1 < p.TickCurrent
                        THEN lastSavedTickArrayStartIndex + count - 1
                        ELSE p.TickCurrent
                   ELSE lastSavedTickArrayStartIndex
       IN  sc' = [set |-> TRUE, pool |-> p, zeroForOne |-> zeroForOne,
                  amountSpecified |-> amountSpecified,
                  pc |-> IF amountSpecified = 0 THEN "returned" ELSE "loop",
                  out |-> IF amountSpecified = 0 THEN PriceErr("input amount cannot be zero") ELSE PriceOk(0),
                  baseInput |-> baseInput,
                  sqrtPriceLimitX64 |-> sqrtPriceLimitX64(baseInput, zeroForOne),
                  amountSpecifiedRemaining |-> amountSpecified,
                  amountCalculated |-> 0,
                  sqrtPriceX64 |-> p.SqrtPriceX64,
                  tick |-> tick,
                  liquidity |-> p.Liquidity,
                  tickArrayCurrent |-> lastSavedTickArrayStartIndex,
                  t |-> ~zeroForOne /\ lastSavedTickArrayStartIndex = tick,
                  loop |-> 0,
                  stepFrom |-> 0, stepTarget |-> 0]
    /\ UNCHANGED <<base, others, conc, wpool, probe>>

\* the loop's exit test succeeds
SwapComputeBreak ==
    /\ sc.set /\ sc.pc = "loop"
    /\ sc.amountSpecifiedRemaining = 0 \/ sc.sqrtPriceX64 = sc.sqrtPriceLimitX64
    /\ sc' = [sc EXCEPT !.pc = "returned", !.out = PriceOk(sc.amountCalculated)]
    /\ UNCHANGED <<base, others, conc, wpool, probe>>

\* one iteration of the loop
SwapComputeIterate ==
    /\ sc.set /\ sc.pc = "loop"
    /\ ~(sc.amountSpecifiedRemaining = 0 \/ sc.sqrtPriceX64 = sc.sqrtPriceLimitX64)
    /\ LET p == sc.pool
           z == sc.zeroForOne
           inArray == getNextInitTick(p, sc.tickArrayCurrent, sc.tick, z, sc.t)
           nextArray == nextInitializedTickArrayStartIndexUtils(p, sc.tickArrayCurrent, z)
           tickArrayCurrent == IF inArray.nil THEN nextArray.start ELSE sc.tickArrayCurrent
           nextInitTick == IF inArray.nil THEN firstInitializedTick(p, nextArray.start, z) ELSE inArray
           tickNext == Max(ClmmMinTick, Min(ClmmMaxTick, nextInitTick.Tick))
           sqrtPriceNextX64 == getSqrtPriceX64FromTick(tickNext)
           target == targetPrice(z, sqrtPriceNextX64, sc.sqrtPriceLimitX64)
           swapStep == swapStepCompute(sc.sqrtPriceX64, target, sc.liquidity, sc.amountSpecifiedRemaining, p.FeeRate, z)
           remaining == IF sc.baseInput
                        THEN sc.amountSpecifiedRemaining - (swapStep.amountIn + swapStep.feeAmount)
                        ELSE sc.amountSpecifiedRemaining + swapStep.amountOut
           calculated == IF sc.baseInput
                         THEN sc.amountCalculated - swapStep.amountOut
                         ELSE sc.amountCalculated + (swapStep.amountIn + swapStep.feeAmount)
           reached == swapStep.sqrtPriceNext = sqrtPriceNextX64
           moved == swapStep.sqrtPriceNext # sc.sqrtPriceX64
           fromPrice == getTickFromSqrtPriceX64(swapStep.sqrtPriceNext)
           liquidity == IF reached
                        THEN sc.liquidity + (IF z THEN 0 - nextInitTick.LiquidityNet ELSE nextInitTick.LiquidityNet)
                        ELSE sc.liquidity
           tick == IF reached THEN (IF z THEN tickNext - 1 ELSE tickNext)
                   ELSE IF moved THEN fromPrice ELSE sc.tick
           t == IF reached THEN tickNext # sc.tick /\ ~z /\ tickArrayCurrent = tickNext
                ELSE IF moved THEN fromPrice # sc.tick /\ ~z /\ tickArrayCurrent = fromPrice
                ELSE sc.t
       IN  IF inArray.nil /\ ~nextArray.isExist
           THEN sc' = [sc EXCEPT !.pc = "returned", !.out = PriceErr("insufficient liquidity")]
           ELSE IF swapStep.kind # "ok"
           THEN sc' = [sc EXCEPT !.pc = "panicked", !.out = PricePanic]
           ELSE sc' = [sc EXCEPT
                         !.stepFrom = sc.sqrtPriceX64, !.stepTarget = target,
                         !.sqrtPriceX64 = swapStep.sqrtPriceNext,
                         !.amountSpecifiedRemaining = remaining,
                         !.amountCalculated = calculated,
                         !.liquidity = liquidity, !.tick = tick, !.t = t,
                         !.tickArrayCurrent = tickArrayCurrent,
                         !.loop = @ + 1,
                         !.pc = IF LoopExceeded(sc.loop + 1) THEN "returned" ELSE "loop",
                         !.out = IF LoopExceeded(sc.loop + 1)
                                 THEN PriceErr("swap computation exceeded maximum iterations")
                                 ELSE @]
    /\ UNCHANGED <<base, others, conc, wpool, probe>>

\* the caller has taken swapCompute's result
SwapComputeDone ==
    /\ sc.set /\ sc.pc = "returned"
    /\ sc' = NoSwapCompute
    /\ UNCHANGED <<base, others, conc, wpool, probe>>

NextSwap ==
    \/ \E p \in SwapPools, z \in BOOLEAN, a \in SwapAmounts :
         \E first \in FirstArrays(p, z) : SwapComputeCall(p, z, a, first)
    \/ SwapComputeBreak
    \/ SwapComputeIterate
    \/ SwapComputeDone

SpecSwap == Init /\ [][NextSwap]_vars

\* C21: the sqrt-price limit is MIN_SQRT_PRICE + 1 when zeroForOne and
\* MAX_SQRT_PRICE - 1 otherwise, every step's target price lies on the side
\* of the current price toward which the swap moves, and an amount is
\* returned only when the remaining input is zero or the price is the limit
C21_LimitFollowsDirection ==
    (sc.set /\ sc.amountSpecified # 0) =>
        /\ sc.sqrtPriceLimitX64 = IF sc.zeroForOne THEN ClmmMinSqrtPrice + 1 ELSE ClmmMaxSqrtPrice - 1
        /\ sc.loop >= 1 => IF sc.zeroForOne THEN sc.stepTarget <= sc.stepFrom ELSE sc.stepTarget >= sc.stepFrom
        /\ (sc.pc = "returned" /\ sc.out.kind = "ok") =>
             (sc.amountSpecifiedRemaining = 0 \/ sc.sqrtPriceX64 = sc.sqrtPriceLimitX64)

\* C22: swapCompute executes at most MaxLoop + 1 steps and ends in an amount
\* or an error; an amount is returned after at most MaxLoop steps, and after
\* more than MaxLoop steps the call has returned the 'exceeded maximum
\* iterations' error
C22_SwapComputeBounded ==
    sc.set =>
        /\ sc.pc \in {"loop", "returned"}
        /\ sc.loop <= MaxLoop + 1
        /\ (sc.pc = "returned" /\ sc.out.kind = "ok") => sc.loop <= MaxLoop
        /\ sc.loop > MaxLoop =>
             /\ sc.pc = "returned"
             /\ sc.out = PriceErr("swap computation exceeded maximum iterations")

\* an exact-input swap has run MaxLoop + 1 steps and returned the error, its
\* input not yet used up
C22_Witness ==
    /\ sc.set /\ sc.pc = "returned" /\ sc.loop = MaxLoop + 1
    /\ sc.baseInput /\ sc.pool.Liquidity > 0
    /\ sc.out.kind = "err"

----------------------------------------------------------------------------
(* CLMMPool.BuildSwapInstructions: two calls on one pool object *)

Builders == {1, 2}

BuildUsers == {"alice", "bob"}

IdleBuilder == [pc |-> "idle", userAddr |-> "", inputMint |-> "", fromAccount |-> <<>>, toAccount |-> <<>>]

\* BuildSwapInstructions up to its GetAccountInfo request: the user's token
\* accounts are stored in the pool object
ConcBuildStart(g, userAddr, inputMint) ==
    /\ conc.set /\ conc.b[g].pc = "idle"
    /\ LET ua == UserAccounts(userAddr, inputMint)
       IN  conc' = [conc EXCEPT
                      !.UserBaseAccount = ua.base,
                      !.UserQuoteAccount = ua.quote,
                      !.b[g] = [IdleBuilder EXCEPT !.pc = "GetAccountInfo",
                                                   !.userAddr = userAddr,
                                                   !.inputMint = inputMint]]
    /\ UNCHANGED <<base, others, sc, wpool, probe>>

\* GetAccountInfo has answered (its answer only decides a log line): the
\* accounts of the instruction are read back from the pool object
ConcBuildFinish(g) ==
    /\ conc.set /\ conc.b[g].pc = "GetAccountInfo"
    /\ LET isBase == conc.b[g].inputMint = TokenMint0
       IN  conc' = [conc EXCEPT
                      !.b[g].pc = "returned",
                      !.b[g].fromAccount = IF isBase THEN conc.UserBaseAccount ELSE conc.UserQuoteAccount,
                      !.b[g].toAccount = IF isBase THEN conc.UserQuoteAccount ELSE conc.UserBaseAccount]
    /\ UNCHANGED <<base, others, sc, wpool, probe>>

\* the caller has taken the instruction
ConcBuildDone(g) ==
    /\ conc.set /\ conc.b[g].pc = "returned"
    /\ conc' = [conc EXCEPT !.b[g] = IdleBuilder]
    /\ UNCHANGED <<base, others, sc, wpool, probe>>

NextConc ==
    \E g \in Builders :
        \/ \E u \in BuildUsers, m \in ClmmInputMints : ConcBuildStart(g, u, m)
        \/ ConcBuildFinish(g)
        \/ ConcBuildDone(g)

InitConc ==
    /\ pools = <<>> /\ lastQuery = NoQuery /\ gb = IdleCall /\ call = NoCall
    /\ step = NoStep /\ wq = NoSnapshot
    /\ OthersIdle
    /\ sc = NoSwapCompute /\ wpool = NoWpool /\ probe = NoProbe
    /\ conc = [set |-> TRUE, UserBaseAccount |-> <<>>, UserQuoteAccount |-> <<>>,
               b |-> [g \in Builders |-> IdleBuilder]]

SpecConc == InitConc /\ [][NextConc]_vars

\* C24: a BuildSwapInstructions call that runs at the same time as another
\* one on the same pool object returns an instruction whose input and output
\* token accounts are the associated token accounts of its own user for its
\* own input and output mint
C24_ConcurrentBuildsOwnAccounts ==
    conc.set => \A g \in Builders :
        conc.b[g].pc = "returned" =>
            LET outputMint == IF conc.b[g].inputMint = TokenMint0 THEN TokenMint1 ELSE TokenMint0
            IN  /\ conc.b[g].fromAccount = FindAssociatedTokenAddress(conc.b[g].userAddr, conc.b[g].inputMint)
                /\ conc.b[g].toAccount = FindAssociatedTokenAddress(conc.b[g].userAddr, outputMint)

----------------------------------------------------------------------------
(* WhirlpoolPool.Quote with the pool's tick-array cache *)

\* a nil map
NilCache == [nil |-> TRUE, m |-> <<>>]

checkTickArrayLiquidity(tickArray) == tickArray.abnormal

\* IsHealthy on the pool's fields and on what TickArrayCache holds
IsHealthyCached(pool, TickArrayCache) ==
    /\ IsHealthy(pool)
    /\ ~TickArrayCache.nil =>
           \A key \in DOMAIN TickArrayCache.m : ~checkTickArrayLiquidity(TickArrayCache.m[key])

\* the tick arrays UpdateTickArrays fetches and decodes for one direction,
\* by their key
FetchedArrays(pool, accounts, aToB) ==
    LET derived == DeriveMultipleWhirlpoolTickArrayPDAs(pool.PoolId, pool.tickCurrentIndex, pool.tickSpacing, aToB)
    IN  IF derived.kind = "err" THEN {}
        ELSE {ta \in {FetchTickArray(accounts, derived.addrs[i]) : i \in 1..3} : ta.kind = "array"}

UpdateTickArrays(pool, TickArrayCache, accounts) ==
    LET fetched == FetchedArrays(pool, accounts, TRUE) \cup FetchedArrays(pool, accounts, FALSE)
        old == IF TickArrayCache.nil THEN {} ELSE DOMAIN TickArrayCache.m
        keys == old \cup {ta.StartTickIndex : ta \in fetched}
    IN  [nil |-> FALSE,
         m |-> [key \in keys |->
                  IF \E ta \in fetched : ta.StartTickIndex = key
                  THEN CHOOSE ta \in fetched : ta.StartTickIndex = key
                  ELSE TickArrayCache.m[key]]]

WpoolSpacing == 64

WpoolArrayStarts == {k * WpoolSpacing * TICK_ARRAY_SIZE : k \in -1 .. 2}

WpoolAddresses == {DeriveWhirlpoolTickArrayPDA("pool", st) : st \in WpoolArrayStarts}

\* the accounts the RPC node holds; what is not listed does not exist
WpoolAccounts ==
    {[addr \in {DeriveWhirlpoolTickArrayPDA("pool", k * WpoolSpacing * TICK_ARRAY_SIZE) : k \in -2 .. 3} |->
         IF addr \in WpoolAddresses THEN f[addr] ELSE "missing"] :
        f \in [WpoolAddresses -> AccountKinds]}

WpoolPools ==
    {[PoolId |-> "pool", sqrtPrice |-> 1024, liquidity |-> L, feeRate |-> 3000,
      tickSpacing |-> WpoolSpacing, tickCurrentIndex |-> t, mintA |-> "SOL", mintB |-> "USDC"] :
        L \in {0, 1024}, t \in {0, 5600}}

\* Quote up to the health check
WpoolQuoteCall ==
    /\ wpool.set /\ wpool.pc = "idle" /\ Len(wpool.outs) < 2
    /\ IF /\ validateQuoteInputs(wpool.inputMint, wpool.inputAmount)
          /\ validatePoolState(wpool.pool)
          /\ IsHealthyCached(wpool.pool, wpool.TickArrayCache)
       THEN wpool' = [wpool EXCEPT !.pc = "UpdateTickArrays"]
       ELSE wpool' = [wpool EXCEPT !.pc = "returned", !.out = Err]
    /\ UNCHANGED <<base, others, sc, conc, probe>>

\* UpdateTickArrays, from the accounts of the RPC node
WpoolUpdateTickArrays ==
    /\ wpool.set /\ wpool.pc = "UpdateTickArrays"
    /\ wpool' = [wpool EXCEPT
                   !.pc = "validateTickArraySequence",
                   !.TickArrayCache = UpdateTickArrays(wpool.pool, wpool.TickArrayCache, wpool.accounts)]
    /\ UNCHANGED <<base, others, sc, conc, probe>>

\* validateTickArraySequence and the calculation
WpoolQuoteCompute ==
    /\ wpool.set /\ wpool.pc = "validateTickArraySequence"
    /\ LET err == validateTickArraySequence(wpool.pool, wpool.accounts, wpool.inputMint = wpool.pool.mintA)
       IN  wpool' = [wpool EXCEPT
                       !.pc = "returned",
                       !.out = WhirlpoolQuoteOnSnapshot(wpool.pool, wpool.inputMint, wpool.inputAmount,
                                                        ~isCriticalTickArrayError(err))]
    /\ UNCHANGED <<base, others, sc, conc, probe>>

\* the caller has taken the outcome
WpoolQuoteReturn ==
    /\ wpool.set /\ wpool.pc = "returned"
    /\ wpool' = [wpool EXCEPT !.pc = "idle", !.outs = Append(wpool.outs, wpool.out)]
    /\ UNCHANGED <<base, others, sc, conc, probe>>

NextWpool ==
    \/ WpoolQuoteCall
    \/ WpoolUpdateTickArrays
    \/ WpoolQuoteCompute
    \/ WpoolQuoteReturn

InitWpool ==
    /\ pools = <<>> /\ lastQuery = NoQuery /\ gb = IdleCall /\ call = NoCall
    /\ step = NoStep /\ wq = NoSnapshot
    /\ OthersIdle
    /\ sc = NoSwapCompute /\ conc = NoConc /\ probe = NoProbe
    /\ \E p \in WpoolPools, acc \in WpoolAccounts, m \in {"SOL", "USDC"}, a \in {0, 100, 1500} :
         wpool = [set |-> TRUE, pool |-> p, accounts |-> acc, inputMint |-> m, inputAmount |-> a,
                  TickArrayCache |-> NilCache, pc |-> "idle", out |-> Err, outs |-> <<>>]

SpecWpool == InitWpool /\ [][NextWpool]_vars

\* C25: two consecutive Quote calls on one pool object, for the same mint
\* and amount and against the same accounts, have the same outcome
C25_QuoteRepeatable ==
    (wpool.set /\ Len(wpool.outs) = 2) => wpool.outs[1] = wpool.outs[2]

----------------------------------------------------------------------------
(* checkAccountExists *)

maxRetries == 3
baseDelay == 100

\* An error of GetAccountInfo is modelled by the set of the phrases its
\* lower-cased message contains.
NotFoundPhrases == {"account not found", "could not find account", "invalid param"}
RateLimitPhrases == {"too many requests", "rate limit", "429", "quota exceeded", "timeout", "connection reset"}

isAccountNotFoundError(err) == err \cap NotFoundPhrases # {}
isRateLimitError(err) == err \cap RateLimitPhrases # {}

\* no error
Nil == {"<nil>"}

\* the answers of the RPC node: the account, or an error
ProbeAnswers ==
    {Nil, {"account not found"}, {"429", "too many requests"}, {"timeout"},
     {"invalid param", "timeout"}, {"not found"}, {"connection refused"}}

MayRetryPastLast(attempt) == attempt <= maxRetries

MayRetry(attempt) == attempt < maxRetries

ProbeResult(exists, failed) == [exists |-> exists, failed |-> failed]

checkAccountExistsCall ==
    /\ ~probe.called
    /\ probe' = [called |-> TRUE, pc |-> "GetAccountInfo", attempt |-> 0, answers |-> <<>>,
                 slept |-> <<>>, out |-> ProbeResult(FALSE, FALSE)]
    /\ UNCHANGED <<base, others, sc, conc, wpool>>

\* GetAccountInfo has answered: the body of the loop up to the return or
\* the sleep
ProbeAnswer(err) ==
    /\ probe.called /\ probe.pc = "GetAccountInfo"
    /\ LET answered == [probe EXCEPT !.answers = Append(probe.answers, err)]
       IN  probe' =
               IF err = Nil
               THEN [answered EXCEPT !.pc = "returned", !.out = ProbeResult(TRUE, FALSE)]
               ELSE IF isAccountNotFoundError(err)
               THEN [answered EXCEPT !.pc = "returned", !.out = ProbeResult(FALSE, FALSE)]
               ELSE IF isRateLimitError(err) /\ MayRetry(probe.attempt)
               THEN [answered EXCEPT !.pc = "Sleep"]
               ELSE [answered EXCEPT !.pc = "returned", !.out = ProbeResult(FALSE, TRUE)]
    /\ UNCHANGED <<base, others, sc, conc, wpool>>

\* time.Sleep has ended: continue with the next attempt, or leave the loop
\* and return the error behind it
ProbeSleepEnds ==
    /\ probe.called /\ probe.pc = "Sleep"
    /\ LET delay == baseDelay * Pow2(probe.attempt)
           slept == [probe EXCEPT !.slept = Append(probe.slept, delay), !.attempt = probe.attempt + 1]
       IN  probe' = IF probe.attempt + 1 <= maxRetries
                    THEN [slept EXCEPT !.pc = "GetAccountInfo"]
                    ELSE [slept EXCEPT !.pc = "returned", !.out = ProbeResult(FALSE, TRUE)]
    /\ UNCHANGED <<base, others, sc, conc, wpool>>

\* the caller has taken the result
ProbeDone ==
    /\ probe.called /\ probe.pc = "returned"
    /\ probe' = NoProbe
    /\ UNCHANGED <<base, others, sc, conc, wpool>>

NextProbe ==
    \/ checkAccountExistsCall
    \/ \E err \in ProbeAnswers : ProbeAnswer(err)
    \/ ProbeSleepEnds
    \/ ProbeDone

SpecProbe == Init /\ [][NextProbe]_vars

ProbeDelays == <<100, 200, 400>>

\* C30: checkAccountExists asks the RPC node at most 4 times and has
\* returned once the fourth answer is in; it sleeps 100, 200, 400 ms before
\* the retries and retries only after a rate-limit error; a not-found error
\* returns (false, nil) at once, any other error returns an error at once,
\* a rate-limit error returns an error on the fourth attempt, and a
\* successful read returns (true, nil)
C30_ProbeBounded ==
    probe.called =>
        LET n == Len(probe.answers)
        IN  /\ n <= maxRetries + 1
            /\ n = maxRetries + 1 => probe.pc = "returned"
            /\ probe.slept = SubSeq(ProbeDelays, 1, Len(probe.slept))
            /\ \A i \in 1 .. n - 1 :
                   isRateLimitError(probe.answers[i]) /\ ~isAccountNotFoundError(probe.answers[i])
                       /\ probe.answers[i] # Nil
            /\ probe.pc = "returned" =>
                   /\ n >= 1
                   /\ Len(probe.slept) = n - 1
                   /\ probe.out =
                          IF probe.answers[n] = Nil THEN ProbeResult(TRUE, FALSE)
                          ELSE IF isAccountNotFoundError(probe.answers[n]) THEN ProbeResult(FALSE, FALSE)
                          ELSE ProbeResult(FALSE, TRUE)
                   /\ (probe.answers[n] # Nil /\ ~isAccountNotFoundError(probe.answers[n])
                         /\ isRateLimitError(probe.answers[n])) => n = maxRetries + 1

\* a fourth rate-limit error after the three sleeps has returned the error
C30_Witness ==
    /\ probe.called /\ probe.pc = "returned"
    /\ Len(probe.answers) = 4 /\ isRateLimitError(probe.answers[4])
    /\ probe.slept = ProbeDelays
    /\ probe.out = ProbeResult(FALSE, TRUE)

====
